---- MODULE Spec2Model ----
\* Verification model of the twitchBot core: the EventSub subscription
\* manager (core/eventsub_manager.py), the service-initialization gate and
\* token handling of NiiBot (core/bot.py) and the channel store queries they
\* use (core/database.py).
EXTENDS Integers, Sequences, FiniteSets, TLC

\* ------------------------------------------------------------------ bounds
NChan == 2
NSetTask == 2
MaxBudget == 4
MaxPasses == 2
NAddToken == 2
MaxWelcomes == 3
MaxClock == 24
MaxLogged == 4
MaxUsageClock == 70
NMsgTask == 2
NChatter == 2
MaxGameClock == 15

\* ------------------------------------------------------- program constants
None == 0
Unlimited == MaxBudget + 1
Chan == 1 .. NChan
Passes == 1 .. MaxPasses

BasicKinds == <<"chat", "online", "raid">>
AdvKinds == <<"follow", "subscribe", "gift", "points">>

\* An error text is modelled by the set of marker substrings the code looks
\* for that occur in it (lower-cased); Ok stands for a request that did
\* not raise.
Ok == {"ok"}
TxtExists == {"already exists"}
TxtScope == {"403", "authorization"}
TxtSession == {"websocket transport session", "already disconnected"}
TxtOther == {}
QuotaTexts == {{"429"}, {"cost exceeded"}}
TransientTexts == {TxtSession, TxtOther}
NoGlitch == {"none"}

VARIABLES
    active,          \* channels.is_active = true
    tokens,          \* user ids with a row in tokens
    storeUp,         \* the channel store answers queries
    scopeOk,         \* credentials that grant the advanced scopes
    live,            \* subscriptions live on the platform: <<channel, kind>>
    budget,          \* remaining subscription cost (Unlimited: no quota)
    quotaText,       \* the wording of the platform's quota rejection
    glitch,          \* a transport/other failure the environment may still inject
    pass,            \* per reconcile pass: the locals of subscribe_all_events
    started,         \* number of passes started so far
    lock,            \* NiiBot._initialization_lock: the holding task, or None
    waiters,         \* tasks queued on the lock, first come first served
    service_initialized,   \* NiiBot._service_initialized
    task,            \* per task of setup_hook / add_token: position and locals
    initRuns,        \* times the initialization sequence ran to its end
    now,             \* time.time(), in seconds
    last_session_welcome,  \* EventSubManager._last_session_welcome
    welcomes,        \* the handle_websocket_reconnect calls so far
    channel_settings,        \* the channel_settings table: prefix, disabled commands
    channel_settings_cache,  \* NiiBot._channel_settings_cache
    op,              \* per task of the settings paths: operation, position, locals
    last_change,     \* per channel: the last change of its settings row
    usage_batch,     \* DatabaseManager._usage_batch: the queued records
    batch_timer,     \* DatabaseManager._batch_timer (0: not running)
    flush,           \* the _flush_usage_batch in progress, if any
    command_usage,   \* the command_usage table: last_used per pair (0: no row)
    usage_count,     \* custom_commands.usage_count per pair
    logged,          \* number of log_command_usage calls watched so far
    committed,       \* the records written by a committed flush
    usage_result,    \* the log_command_usage call that returned last
    channel_rows,    \* the channels table: number of rows per channel id
    settings_rows,   \* channel ids with a row in channel_settings
    channel_call,    \* the add_channel / remove_channel call that returned last
    _prefix,         \* NiiBot._prefix: the bot-wide command prefix
    msg,             \* per event_message task of the bot: position and locals
    channel_prefixes,  \* CustomCommands.channel_prefixes
    loaded,          \* CustomCommands.loaded
    listened,        \* the last message the custom-command listener matched
    channel_states,  \* BeFirstComponent.channel_states
    processing_lock, \* BeFirstComponent.processing_lock: the holder, or None
    chat             \* per chatter: the be-first message in progress

storeVars == <<active, tokens, storeUp>>
platformVars == <<scopeOk, live, budget, quotaText, glitch>>
passVars == <<pass, started>>
gateVars == <<lock, waiters, service_initialized, task, initRuns>>
clockVars == <<now, last_session_welcome, welcomes>>

settingsVars == <<channel_settings, channel_settings_cache, op, last_change>>
usageVars == <<usage_batch, batch_timer, flush, command_usage, usage_count,
              logged, committed, usage_result>>
channelVars == <<channel_rows, settings_rows, channel_call>>
swapVars == <<_prefix, msg>>
listenerVars == <<channel_prefixes, loaded, listened>>
gameVars == <<channel_states, processing_lock, chat>>
componentVars == <<swapVars, listenerVars, gameVars>>
auxVars == <<settingsVars, usageVars, channelVars, componentVars>>
coreVars == <<storeVars, platformVars, passVars, gateVars, clockVars, usageVars,
             channelVars, componentVars>>

vars == <<active, tokens, storeUp, scopeOk, live, budget, quotaText, glitch, pass,
          started, lock, waiters, service_initialized, task, initRuns, now,
          last_session_welcome, welcomes, channel_settings,
          channel_settings_cache, op, last_change, usage_batch, batch_timer,
          flush, command_usage, usage_count, logged, committed, usage_result,
          channel_rows, settings_rows, channel_call, _prefix, msg,
          channel_prefixes, loaded, listened, channel_states, processing_lock,
          chat>>

\* --------------------------------------------------------------- helpers
SortedSeq(S) ==
    CHOOSE s \in [1 .. Cardinality(S) -> S] :
        \A a, b \in 1 .. Cardinality(S) : a < b => s[a] < s[b]

SeqSet(s) == {s[n] : n \in 1 .. Len(s)}

FilterSeq(s, T) == SelectSeq(s, LAMBDA c : c \in T)

\* ------------------------------------------------------- channel store
get_active_channels == SortedSeq(active)

get_channels_with_tokens ==
    IF storeUp THEN SortedSeq(active \cap tokens) ELSE <<>>

\* --------------------------------------------------------------- platform
\* What the platform may answer to a subscription request in this state.
Answer(ch, kind) ==
    IF <<ch, kind>> \in live THEN {TxtExists}
    ELSE IF kind \in SeqSet(AdvKinds) /\ ch \notin scopeOk THEN {TxtScope}
    ELSE IF budget = 0 THEN {quotaText}
    ELSE {Ok}

\* ... or the request fails on the way, once
Outcomes(ch, kind) ==
    Answer(ch, kind) \cup (IF glitch # NoGlitch THEN {glitch} ELSE {})

subscribe_websocket(ch, kind, out) ==
    /\ out \in Outcomes(ch, kind)
    /\ live' = IF out = Ok THEN live \cup {<<ch, kind>>} ELSE live
    /\ budget' = IF out = Ok /\ budget # Unlimited THEN budget - 1 ELSE budget
    /\ glitch' = IF out = glitch THEN NoGlitch ELSE glitch
    /\ UNCHANGED quotaText

\* ------------------------------------------------- error classification
ChatOnlyIsQuota_only429(e) == "429" \in e

ChatOnlyIsQuota_anyError(e) == TRUE

\* subscribe_all_events, chat-only loop: the quota test
ChatOnlyIsQuota(e) == "429" \in e \/ "cost exceeded" \in e

\* subscribe_all_events, chat-only loop: the failure is logged
ChatOnlyIsLogged(e) == ~ChatOnlyIsQuota(e) /\ "already exists" \notin e

\* _subscribe_basic_events_safe: the failure is logged
BasicIsLogged(e) ==
    "already exists" \notin e /\ "websocket transport session" \notin e

_handle_subscription_error_nohalt(e, cost_limit_reached) == cost_limit_reached

_handle_subscription_error_anyHalts(e, cost_limit_reached) ==
    IF "403" \in e \/ "authorization" \in e THEN cost_limit_reached
    ELSE TRUE

_handle_subscription_error_scopeHalts(e, cost_limit_reached) ==
    "403" \in e \/ "authorization" \in e \/ "429" \in e \/ "cost exceeded" \in e
        \/ cost_limit_reached

\* _handle_subscription_error: the new value of cost_limit_reached
_handle_subscription_error(e, cost_limit_reached) ==
    IF "403" \in e \/ "authorization" \in e THEN cost_limit_reached
    ELSE IF "429" \in e \/ "cost exceeded" \in e THEN TRUE
    ELSE cost_limit_reached

\* ------------------------------------------------------------ pass record
IdlePass ==
    [pc |-> "idle", channel_id |-> None, advanced_only |-> FALSE,
     is_reconnect |-> FALSE, channels |-> <<>>,
     channels_with_tokens |-> <<>>, channels_without_tokens |-> <<>>,
     basic |-> <<>>, i |-> 1, j |-> 1, k |-> 1,
     cost_limit_reached |-> FALSE, success_count |-> 0,
     basicLog |-> {}, chatLog |-> <<>>, advLog |-> <<>>,
     summary |-> "none", faults |-> 0, liveAfter |-> {}]

Running(p) == pass[p].pc \notin {"idle", "done", "forgotten", "raised"}

HandlerCatches_classifiedOnly(e) == e # {}

\* `except Exception` around every subscription request (lines 81, 114, 182,
\* 197, 212, 256): whatever the request raised is caught there
HandlerCatches(e) == TRUE

\* a failure no handler caught leaves subscribe_all_events
Raise(P, liveNow) == [P EXCEPT !.pc = "raised", !.liveAfter = liveNow]

\* the summary log line at the end of a pass (lines 96-104)
Summary(P) ==
    IF P.is_reconnect THEN "reconnect"
    ELSE IF P.channel_id # None THEN "configured"
    ELSE "ready"

Finish(P, liveNow) ==
    [P EXCEPT !.pc = "done", !.summary = Summary(P), !.liveAfter = liveNow]

Return(P, liveNow) ==
    [P EXCEPT !.pc = "done", !.liveAfter = liveNow]

AfterChat_returns(P, liveNow) == Finish(P, liveNow)

\* where the pass goes once the chat-only loop is over (lines 92-104)
AfterChat(P, liveNow) ==
    IF P.channels_with_tokens # <<>>
    THEN [P EXCEPT !.pc = "adv", !.j = 1, !.k = 1, !.cost_limit_reached = FALSE]
    ELSE Finish(P, liveNow)

\* where the pass goes once the basic tier is over (lines 76-77)
AfterBasic(P, liveNow) ==
    IF P.channels_without_tokens # <<>>
    THEN [P EXCEPT !.pc = "chat", !.i = 1]
    ELSE AfterChat(P, liveNow)

\* What is remembered of a pass that has returned once the pass after the
\* next one starts: that it returned, and whether it was a reconnect pass.
Forget(P) ==
    IF P.pc \in {"done", "forgotten"}
    THEN [IdlePass EXCEPT !.pc = "forgotten", !.is_reconnect = P.is_reconnect]
    ELSE P

\* What is remembered of a pass that has returned once the next pass starts:
\* its arguments, its summary line, the failures injected into it and the
\* subscriptions live when it returned; its locals are gone.
Archive(P) ==
    IF P.pc = "done"
    THEN [IdlePass EXCEPT !.pc = "done", !.channel_id = P.channel_id,
                          !.advanced_only = P.advanced_only,
                          !.is_reconnect = P.is_reconnect,
                          !.summary = P.summary, !.faults = P.faults,
                          !.liveAfter = P.liveAfter]
    ELSE P

\* ------------------------------------------------------------- operations
\* A call of subscribe_all_events(channel_id, advanced_only, is_reconnect).
Begin(p, cid, adv, rec) ==
    /\ p = started + 1
    /\ p \in Passes
    /\ started' = p
    /\ pass' = [q \in Passes |->
                  IF q = p
                  THEN [IdlePass EXCEPT !.pc = "fetch", !.channel_id = cid,
                                        !.advanced_only = adv, !.is_reconnect = rec]
                  ELSE IF q = p - 1 THEN Archive(pass[q])
                  ELSE Forget(pass[q])]

\* initialize_services, line 112: the first pass of the process
first_pass ==
    /\ started = 0
    /\ Begin(1, None, FALSE, FALSE)
    /\ UNCHANGED <<storeVars, platformVars, gateVars, clockVars>>
    /\ UNCHANGED auxVars

\* NiiBot.subscribe_eventsub: the proxy used by the command layer, once the
\* services are up.
subscribe_eventsub(cid, adv) ==
    /\ started > 0
    /\ \A q \in Passes : ~Running(q)
    /\ Begin(started + 1, cid, adv, FALSE)
    /\ UNCHANGED <<storeVars, platformVars, gateVars, clockVars>>
    /\ UNCHANGED auxVars

\* lines 30-42: the channel list of the pass
FetchChannels(p) ==
    /\ pass[p].pc = "fetch"
    /\ LET P == pass[p]
           channels == get_active_channels
       IN pass' = [pass EXCEPT ![p] =
            IF ~storeUp THEN [Return(P, live) EXCEPT !.summary = "failed"]
            ELSE IF P.channel_id # None
                 THEN IF P.channel_id \in SeqSet(channels)
                      THEN [P EXCEPT !.pc = "tokens", !.channels = <<P.channel_id>>]
                      ELSE Return(P, live)
                 ELSE IF channels = <<>> THEN Return(P, live)
                      ELSE [P EXCEPT !.pc = "tokens", !.channels = channels]]
    /\ UNCHANGED <<storeVars, platformVars, started, gateVars, clockVars>>
    /\ UNCHANGED auxVars

AdvancedOnlyTargets_unfiltered(cwt, cid) == cwt

\* lines 47-52: the channels an advanced-only pass works on
AdvancedOnlyTargets(cwt, cid) ==
    IF cid # None THEN FilterSeq(cwt, {cid}) ELSE cwt

WithoutTokens_unfiltered(channels, cwt) == channels

\* lines 59-61: the channels that get the chat-only subscription
WithoutTokens(channels, cwt) == FilterSeq(channels, Chan \ SeqSet(cwt))

\* lines 45-61: the credential list and the partition of the channels
FetchTokens(p) ==
    /\ pass[p].pc = "tokens"
    /\ LET P == pass[p]
           cwt == get_channels_with_tokens
           advCwt == AdvancedOnlyTargets(cwt, P.channel_id)
           cwot == WithoutTokens(P.channels, cwt)
           Q == [P EXCEPT !.channels_with_tokens = cwt,
                          !.channels_without_tokens = cwot,
                          !.basic = [n \in 1 .. Len(cwt) |-> 1]]
       IN pass' = [pass EXCEPT ![p] =
            IF P.advanced_only
            THEN IF advCwt = <<>>
                 THEN Return([P EXCEPT !.channels_with_tokens = advCwt], live)
                 ELSE [P EXCEPT !.pc = "adv", !.channels_with_tokens = advCwt,
                                !.j = 1, !.k = 1]
            ELSE IF cwt # <<>> THEN [Q EXCEPT !.pc = "basic"]
                 ELSE AfterBasic(Q, live)]
    /\ UNCHANGED <<storeVars, platformVars, started, gateVars, clockVars>>
    /\ UNCHANGED auxVars

\* lines 65-74 and 109-146: one request of one channel's basic sequence; the
\* sequences of the authorized channels run as concurrent tasks (gather).
\* basic[n] is the position of task n: 1..3 the next kind, 4 returned True,
\* 0 returned False.
Gathered_untilFailure(basic) ==
    \/ \E m \in DOMAIN basic : basic[m] = 0
    \/ \A m \in DOMAIN basic : basic[m] = 4

\* lines 67-73: asyncio.gather(..., return_exceptions=True) returns when
\* every task has returned
Gathered(basic) == \A m \in DOMAIN basic : basic[m] \in {0, 4}

BasicResult_inverted(pos, out) ==
    IF out # Ok THEN pos + 1 ELSE 0

BasicResult(pos, out) ==
    IF out = Ok THEN pos + 1 ELSE 0

BasicStep(p, n) ==
    /\ pass[p].pc = "basic"
    /\ n \in 1 .. Len(pass[p].channels_with_tokens)
    /\ pass[p].basic[n] \in 1 .. 3
    /\ LET P == pass[p]
           ch == P.channels_with_tokens[n]
           kind == BasicKinds[P.basic[n]]
       IN \E out \in Outcomes(ch, kind) :
            /\ subscribe_websocket(ch, kind, out)
            /\ LET basic == [P.basic EXCEPT ![n] = BasicResult(P.basic[n], out)]
                   Q == [P EXCEPT !.basic = basic,
                                  !.basicLog = @ \cup {<<ch, kind, out>>},
                                  !.faults = IF out = glitch THEN @ + 1 ELSE @]
                   finished == Gathered(basic)
                   trues == Cardinality({m \in DOMAIN basic : basic[m] = 4})
               IN pass' = [pass EXCEPT ![p] =
                    IF out # Ok /\ ~HandlerCatches(out) THEN Raise(Q, live')
                    ELSE IF finished
                    THEN AfterBasic([Q EXCEPT !.success_count = @ + trues], live')
                    ELSE Q]
    /\ UNCHANGED <<storeVars, scopeOk, started, gateVars, clockVars>>
    /\ UNCHANGED auxVars

\* lines 76-90: one iteration of the chat-only loop
ChatStep(p) ==
    /\ pass[p].pc = "chat"
    /\ LET P == pass[p]
           ch == P.channels_without_tokens[P.i]
       IN \E out \in Outcomes(ch, "chat") :
            /\ subscribe_websocket(ch, "chat", out)
            /\ LET Q == [P EXCEPT !.chatLog = Append(@, <<ch, out>>),
                                  !.faults = IF out = glitch THEN @ + 1 ELSE @,
                                  !.i = @ + 1,
                                  !.success_count = IF out = Ok THEN @ + 1 ELSE @]
                   break == out # Ok /\ ChatOnlyIsQuota(out)
               IN pass' = [pass EXCEPT ![p] =
                    IF out # Ok /\ ~HandlerCatches(out) THEN Raise(Q, live')
                    ELSE IF break \/ Q.i > Len(P.channels_without_tokens)
                    THEN AfterChat(Q, live')
                    ELSE Q]
    /\ UNCHANGED <<storeVars, scopeOk, started, gateVars, clockVars>>
    /\ UNCHANGED auxVars

\* lines 158-264: one request of the advanced tier (the eventsub module
\* offers a Channel Points subscription class, lines 224-247)
AdvStep(p) ==
    /\ pass[p].pc = "adv"
    /\ LET P == pass[p]
           ch == P.channels_with_tokens[P.j]
           kind == AdvKinds[P.k]
           lastKind == P.k = Len(AdvKinds)
           lastChan == P.j = Len(P.channels_with_tokens)
           End(Q) == IF P.advanced_only THEN Return(Q, live') ELSE Finish(Q, live')
       IN \E out \in Outcomes(ch, kind) :
            /\ subscribe_websocket(ch, kind, out)
            /\ LET clr == IF out = Ok THEN P.cost_limit_reached
                          ELSE _handle_subscription_error(out, P.cost_limit_reached)
                   Q == [P EXCEPT !.advLog = Append(@, <<ch, kind, out>>),
                                  !.faults = IF out = glitch THEN @ + 1 ELSE @,
                                  !.cost_limit_reached = clr]
               IN pass' = [pass EXCEPT ![p] =
                    IF out # Ok /\ ~HandlerCatches(out) THEN Raise(Q, live')
                    ELSE IF clr \/ (lastKind /\ lastChan) THEN End(Q)
                    ELSE IF lastKind THEN [Q EXCEPT !.j = @ + 1, !.k = 1]
                    ELSE [Q EXCEPT !.k = @ + 1]]
    /\ UNCHANGED <<storeVars, scopeOk, started, gateVars, clockVars>>
    /\ UNCHANGED auxVars

\* ------------------------------------------------- reconnect handling
DebounceWindow == 10

Debounced_oneSecond(current_time, last) == current_time - last < 1

Debounced_oneMinute(current_time, last) == current_time - last < 60

\* line 329: the call falls into the debounce window of the last handled one
Debounced(current_time, last) == current_time - last < DebounceWindow

\* NiiBot.event_eventsub_websocket_welcome -> handle_websocket_reconnect
handle_websocket_reconnect ==
    /\ Len(welcomes) < MaxWelcomes
    /\ IF Debounced(now, last_session_welcome)
       THEN /\ welcomes' = Append(welcomes, [at |-> now, pass |-> None])
            /\ UNCHANGED <<last_session_welcome, passVars>>
       ELSE /\ started < MaxPasses
            /\ last_session_welcome' = now
            /\ welcomes' = Append(welcomes, [at |-> now, pass |-> started + 1])
            /\ Begin(started + 1, None, FALSE, TRUE)
    /\ UNCHANGED <<storeVars, platformVars, gateVars, now>>
    /\ UNCHANGED auxVars

\* the passing of time between two events
Tick(d) ==
    /\ now + d <= MaxClock
    /\ now' = now + d
    /\ UNCHANGED <<storeVars, platformVars, passVars, gateVars,
                   last_session_welcome, welcomes>>
    /\ UNCHANGED auxVars

\* --------------------------------------------------- initialization gate
AddTokenTasks == 1 .. NAddToken
Setup == NAddToken + 1
Tasks == {Setup} \cup AddTokenTasks
Owner == 1
NoTask == None

IdleTask == [pc |-> "start", was_empty |-> FALSE, p |-> None, caller |-> "none"]

CanAcquire_unguarded(holder, queue, t) == TRUE

\* asyncio.Lock.acquire: taken at once when free and nobody is queued
CanAcquire(holder, queue, t) == holder = NoTask /\ queue = <<>>

\* asyncio.Lock: a queued task is woken when the lock is free and it is first
CanWake(holder, queue, t) == holder = NoTask /\ queue # <<>> /\ Head(queue) = t

\* async with self._initialization_lock (entry), for a task at pc `from`
Acquire(t, from, to) ==
    /\ task[t].pc = from
    /\ IF CanAcquire(lock, waiters, t)
       THEN /\ lock' = t
            /\ task' = [task EXCEPT ![t].pc = to]
            /\ UNCHANGED waiters
       ELSE /\ waiters' = Append(waiters, t)
            /\ task' = [task EXCEPT ![t].pc = "wait_" \o to]
            /\ UNCHANGED lock

Wake(t, to) ==
    /\ task[t].pc = "wait_" \o to
    /\ CanWake(lock, waiters, t)
    /\ lock' = t
    /\ waiters' = Tail(waiters)
    /\ task' = [task EXCEPT ![t].pc = to]

\* database.check_existing_tokens (False when the store does not answer)
check_existing_tokens == storeUp /\ tokens # {}

\* setup_hook, lines 53-63
SetupStart ==
    /\ task[Setup].pc = "start"
    /\ task' = [task EXCEPT ![Setup].pc =
                  IF check_existing_tokens THEN "init_acquire" ELSE "load",
                            ![Setup].caller = "setup"]
    /\ UNCHANGED <<storeVars, platformVars, passVars, lock, waiters,
                   service_initialized, initRuns, clockVars>>
    /\ UNCHANGED auxVars

\* setup_hook, line 65
SetupLoad ==
    /\ task[Setup].pc = "load"
    /\ task' = [task EXCEPT ![Setup].pc = "returned"]
    /\ UNCHANGED <<storeVars, platformVars, passVars, lock, waiters,
                   service_initialized, initRuns, clockVars>>
    /\ UNCHANGED auxVars

\* where a task continues when initialize_services returns to it
AfterInit(t) == IF task[t].caller = "setup" THEN "load" ELSE "at_release"

\* initialize_services, line 97
InitAcquire(t) ==
    /\ \/ Acquire(t, "init_acquire", "init_check")
       \/ Wake(t, "init_check")
    /\ UNCHANGED <<storeVars, platformVars, passVars, service_initialized,
                   initRuns, clockVars>>
    /\ UNCHANGED auxVars

\* initialize_services, lines 98-100
InitCheck(t) ==
    /\ task[t].pc = "init_check"
    /\ IF service_initialized
       THEN /\ lock' = IF lock = t THEN NoTask ELSE lock
            /\ task' = [task EXCEPT ![t].pc = AfterInit(t)]
       ELSE /\ task' = [task EXCEPT ![t].pc = "init_default"]
            /\ UNCHANGED lock
    /\ UNCHANGED <<storeVars, platformVars, passVars, waiters,
                   service_initialized, initRuns, clockVars>>
    /\ UNCHANGED auxVars

\* initialize_services, line 103: ensure_default_channel. The owner's channel
\* becomes active when the user is fetched and the store inserts a new row;
\* an existing row is left as it is, failures are caught and logged.
InitDefaultChannel(t) ==
    /\ task[t].pc = "init_default"
    /\ \E fetched \in BOOLEAN :
         active' = IF fetched /\ storeUp THEN active \cup {Owner} ELSE active
    /\ task' = [task EXCEPT ![t].pc = "init_subscribe"]
    /\ UNCHANGED <<tokens, storeUp, platformVars, passVars, lock, waiters,
                   service_initialized, initRuns, clockVars>>
    /\ UNCHANGED auxVars

\* initialize_services, lines 105-112: the first EventSub pass is started
InitSubscribe(t) ==
    /\ task[t].pc = "init_subscribe"
    /\ started < MaxPasses
    /\ Begin(started + 1, None, FALSE, FALSE)
    /\ task' = [task EXCEPT ![t].pc = "init_pass", ![t].p = started + 1]
    /\ UNCHANGED <<storeVars, platformVars, lock, waiters, service_initialized,
                   initRuns, clockVars>>
    /\ UNCHANGED auxVars

\* initialize_services, lines 112-114: the pass has returned
InitDone(t) ==
    /\ task[t].pc = "init_pass"
    /\ pass[task[t].p].pc = "done"
    /\ service_initialized' = TRUE
    /\ initRuns' = initRuns + 1
    /\ lock' = IF lock = t THEN NoTask ELSE lock
    /\ task' = [task EXCEPT ![t].pc = AfterInit(t)]
    /\ UNCHANGED <<storeVars, platformVars, passVars, waiters, clockVars>>
    /\ UNCHANGED auxVars

\* add_token, line 138
AddTokenAcquire(a) ==
    /\ \/ /\ task[a].pc = "start"
          /\ Acquire(a, "start", "at_check")
       \/ Wake(a, "at_check")
    /\ UNCHANGED <<storeVars, platformVars, passVars, service_initialized,
                   initRuns, clockVars>>
    /\ UNCHANGED auxVars

\* add_token, line 139
AddTokenCheck(a) ==
    /\ task[a].pc = "at_check"
    /\ task' = [task EXCEPT ![a].pc = "at_store",
                            ![a].was_empty = ~check_existing_tokens,
                            ![a].caller = "add_token"]
    /\ UNCHANGED <<storeVars, platformVars, passVars, lock, waiters,
                   service_initialized, initRuns, clockVars>>
    /\ UNCHANGED auxVars

\* add_token, line 148: the initialization is started from add_token
NeedsInit(was_empty, initialized) == was_empty /\ ~initialized

\* add_token, lines 141-150: the token is validated and stored; either may
\* raise, which leaves the `async with` block and releases the lock
AddTokenStore(a) ==
    /\ task[a].pc = "at_store"
    /\ \/ \E u \in Chan :
            /\ storeUp
            /\ tokens' = tokens \cup {u}
            /\ task' = [task EXCEPT ![a].pc =
                          IF NeedsInit(task[a].was_empty, service_initialized)
                          THEN "init_acquire" ELSE "at_release"]
            /\ UNCHANGED lock
       \/ /\ task' = [task EXCEPT ![a].pc = "raised"]
          /\ lock' = NoTask
          /\ UNCHANGED tokens
    /\ UNCHANGED <<active, storeUp, platformVars, passVars, waiters,
                   service_initialized, initRuns, clockVars>>
    /\ UNCHANGED auxVars

\* add_token, line 152: return resp, leaving the `async with` block
AddTokenReturn(a) ==
    /\ task[a].pc = "at_release"
    /\ lock' = IF lock = a THEN NoTask ELSE lock
    /\ task' = [task EXCEPT ![a].pc = "returned"]
    /\ UNCHANGED <<storeVars, platformVars, passVars, waiters,
                   service_initialized, initRuns, clockVars>>
    /\ UNCHANGED auxVars

\* ------------------------------------------------------ channel settings
\* Prefixes are character sequences; commands are names. The settings paths
\* are followed for the owner's channel and one more channel.
SetChan == {Owner, NChan}
DefaultPrefix == <<"!">>
PrefixLimit == 5
Rep(n) == [k \in 1 .. n |-> "?"]
PrefixArgs == {Rep(0), Rep(PrefixLimit), Rep(PrefixLimit + 1)}
Commands == {"dice", "enable"}

\* the row of a channel in channel_settings; a missing row reads as the
\* default one (database.get_channel_settings, lines 185-188)
DefaultSettings == [prefix |-> DefaultPrefix, disabled |-> {}]

\* A settings dict as the bot holds it. `pre` records that the store read it
\* came from preceded an invalidation of the channel (kept for the claims).
NoEntry == [has |-> FALSE, prefix |-> <<>>, disabled |-> {}, pre |-> FALSE]
Entry(row) == [has |-> TRUE, prefix |-> row.prefix, disabled |-> row.disabled,
               pre |-> FALSE]

SetTasks == 1 .. NSetTask
NoChange == [kind |-> "none", x |-> "-", pfx |-> <<>>]
IdleOp == [kind |-> "none", pc |-> "idle", ch |-> None, x |-> "-", pfx |-> <<>>,
           settings |-> NoEntry, saw |-> NoChange, res |-> "none"]

Editors == {"disable", "enable"}

\* What a lookup that starts now may rely on: the last change of the channel's
\* row, made by a command that has replied success, if it concerns the lookup
\* (kept for the claims).
Relevant(kind, x, last) ==
    IF \/ kind = "get" /\ last.kind = "setprefix"
       \/ kind = "enabled" /\ last.kind \in Editors /\ last.x = x
    THEN last ELSE NoChange

\* A task at rest after an operation: its result; the value it returned is
\* kept where a change was relied on.
Done(o, res) ==
    IF o.saw.kind \in {"none", "mine"}
    THEN [IdleOp EXCEPT !.kind = o.kind, !.pc = "done", !.res = res,
                        !.x = IF o.kind = "message" THEN o.x ELSE "-"]
    ELSE [o EXCEPT !.pc = "done", !.res = res, !.settings.pre = FALSE,
                   !.settings.disabled = {}]

\* clear_channel_settings_cache: pop one entry, or clear all
ClearedCache(cache, channel_id) ==
    IF channel_id # None THEN [cache EXCEPT ![channel_id] = NoEntry]
    ELSE [c \in SetChan |-> NoEntry]

\* the plain lookups of which a store read is pending delivery when the entry of
\* channel_id (of every channel, if None) is invalidated: their value now
\* predates an invalidation
Outdated(o, channel_id) ==
    IF o.kind = "get" /\ o.pc = "fill" /\ (channel_id = None \/ o.ch = channel_id)
    THEN [o EXCEPT !.settings.pre = TRUE] ELSE o

\* a write to the row of channel c supersedes what the tasks in progress on
\* c saw as the last change, and the write of a command still in progress
Superseded(o, c) ==
    IF o.ch = c /\ o.pc # "done" THEN [o EXCEPT !.saw = NoChange] ELSE o

\* content.startswith(channel_prefix), content being prefix + command name
StartsWith(content, prefix) ==
    Len(prefix) <= Len(content) /\ SubSeq(content, 1, Len(prefix)) = prefix

\* content[len(channel_prefix):].split()[0].lower() for a content that starts
\* with the prefix: the command name, or a word that is no command
CommandName(content, prefix) ==
    IF Len(content) = Len(prefix) + 1 THEN content[Len(content)] ELSE "other"

\* is_command_enabled, lines 205-210, on the settings it was given
is_command_enabled(settings, command_name) == command_name \notin settings.disabled

\* What a caller of get_channel_settings does when the call returns the
\* settings object (cache is the cache at that moment, the object in it),
\* up to its next await: the new task record and the new cache.
\*   disable_command / enable_command: system_cmds.py lines 239-246, 288-295
\*   event_message: bot.py lines 292-313; is_command_enabled: lines 205-210
After(o, cache) ==
    LET st == o.settings
        content == o.pfx \o <<o.x>>
        edited == IF o.kind = "disable" THEN st.disabled \cup {o.x}
                  ELSE st.disabled \ {o.x}
    IN CASE o.kind = "get" -> [o |-> Done(o, "value"), cache |-> cache]
         [] o.kind = "enabled" ->
              [o |-> Done(o, IF is_command_enabled(st, o.x) THEN "true" ELSE "false"),
               cache |-> cache]
         [] o.kind \in Editors ->
              IF edited = st.disabled
              THEN [o |-> Done(o, "already"), cache |-> cache]
              ELSE [o |-> [o EXCEPT !.pc = "write", !.settings.disabled = edited],
                    cache |-> [cache EXCEPT ![o.ch].disabled = edited]]
         [] o.kind = "message" ->
              IF /\ StartsWith(content, st.prefix)
                 /\ ~is_command_enabled(st, CommandName(content, st.prefix))
              THEN [o |-> Done(o, "blocked"), cache |-> cache]
              ELSE [o |-> Done(o, "processed"), cache |-> cache]

\* What the caller does when get_channel_settings raises.
\*   is_command_enabled: except -> True (lines 211-213); the commands reply
\*   the error; event_message logs it (lines 322-323)
Raised(o) ==
    CASE o.kind = "get" -> Done(o, "raised")
      [] o.kind = "enabled" -> Done(o, "true")
      [] o.kind \in Editors -> Done(o, "error")
      [] o.kind = "message" -> Done(o, "dropped")

\* get_channel_settings, line 189
CacheHit(cache, channel_id) == cache[channel_id].has

\* A task calls get_channel_settings(c): directly, or from is_command_enabled,
\* disable_command, enable_command or event_message (bot.py lines 187-194).
\* Moderator commands that edit the disabled list of a channel come one at
\* a time.
Call(t, kind, c, x, pfx) ==
    /\ op[t].pc \in {"idle", "done"}
    /\ kind \in Editors =>
         \A u \in SetTasks \ {t} :
            ~(op[u].ch = c /\ op[u].kind \in Editors /\ op[u].pc # "done")
    /\ LET o == [IdleOp EXCEPT !.kind = kind, !.ch = c, !.x = x, !.pfx = pfx,
                               !.saw = Relevant(kind, x, last_change[c])]
       IN IF CacheHit(channel_settings_cache, c)
          THEN LET a == After([o EXCEPT !.settings = channel_settings_cache[c]],
                              channel_settings_cache)
               IN /\ op' = [op EXCEPT ![t] = a.o]
                  /\ channel_settings_cache' = a.cache
          ELSE /\ op' = [op EXCEPT ![t] = [o EXCEPT !.pc = "read"]]
               /\ UNCHANGED channel_settings_cache
    /\ UNCHANGED <<channel_settings, last_change, coreVars>>

\* What get_channel_settings leaves in the cache when the store read fails
FailedReadEntry_default == Entry(DefaultSettings)

FailedReadEntry == NoEntry

\* database.get_channel_settings (lines 170-188): the query is answered, or
\* it fails and the exception reaches the caller
StoreRead(t) ==
    /\ op[t].pc = "read"
    /\ \/ /\ op' = [op EXCEPT ![t] =
                      [op[t] EXCEPT !.pc = "fill",
                                    !.settings = Entry(channel_settings[op[t].ch])]]
          /\ UNCHANGED channel_settings_cache
       \/ /\ op' = [op EXCEPT ![t] = Raised(op[t])]
          /\ channel_settings_cache' =
               IF FailedReadEntry.has
               THEN [channel_settings_cache EXCEPT ![op[t].ch] = FailedReadEntry]
               ELSE channel_settings_cache
    /\ UNCHANGED <<channel_settings, last_change, coreVars>>

\* get_channel_settings, lines 193-194: the entry is written and returned
Fill(t) ==
    /\ op[t].pc = "fill"
    /\ LET a == After(op[t], [channel_settings_cache EXCEPT ![op[t].ch] = op[t].settings])
       IN /\ op' = [op EXCEPT ![t] = a.o]
          /\ channel_settings_cache' = a.cache
    /\ UNCHANGED <<channel_settings, last_change, coreVars>>

PrefixAccepted_anyLength(prefix) == prefix # <<>>

\* set_prefix_command, lines 704-706: the length check
PrefixAccepted(prefix) == ~(prefix = <<>> \/ Len(prefix) > PrefixLimit)

\* set_prefix_command, lines 699-712: up to the store write
SetPrefix(t, c, prefix) ==
    /\ op[t].pc \in {"idle", "done"}
    /\ LET o == [IdleOp EXCEPT !.kind = "setprefix", !.ch = c, !.pfx = prefix]
       IN op' = [op EXCEPT ![t] =
                   IF PrefixAccepted(prefix) THEN [o EXCEPT !.pc = "write"]
                   ELSE Done(o, "rejected")]
    /\ UNCHANGED <<channel_settings, channel_settings_cache, last_change, coreVars>>

\* the upsert of a command: set_prefix_command lines 713-721 (prefix column),
\* disable_command lines 249-258, enable_command lines 298-307 (settings
\* column); a failure is replied to the chat
StoreWrite(t) ==
    /\ op[t].pc = "write"
    /\ LET c == op[t].ch
       IN \/ /\ channel_settings' = [channel_settings EXCEPT ![c] =
                   IF op[t].kind = "setprefix"
                   THEN [@ EXCEPT !.prefix = op[t].pfx]
                   ELSE [@ EXCEPT !.disabled = op[t].settings.disabled]]
             /\ op' = [u \in SetTasks |->
                         IF u = t THEN [op[t] EXCEPT !.pc = "clear", !.saw.kind = "mine"]
                         ELSE Superseded(op[u], c)]
             /\ last_change' = [last_change EXCEPT ![c] = NoChange]
          \/ /\ op' = [op EXCEPT ![t] = Done(op[t], "error")]
             /\ UNCHANGED <<channel_settings, last_change>>
    /\ UNCHANGED <<channel_settings_cache, coreVars>>

\* the command invalidates the entry and replies success
\* (lines 724-725, 261-262, 310-311)
Invalidate(t) ==
    /\ op[t].pc = "clear"
    /\ channel_settings_cache' = ClearedCache(channel_settings_cache, op[t].ch)
    /\ op' = [u \in SetTasks |->
                IF u = t THEN [IdleOp EXCEPT !.kind = op[t].kind,
                                             !.pc = "done", !.res = "ok"]
                ELSE Outdated(op[u], op[t].ch)]
    /\ last_change' = [last_change EXCEPT ![op[t].ch] =
                         IF op[t].saw.kind = "mine"
                         THEN [kind |-> op[t].kind, x |-> op[t].x, pfx |-> op[t].pfx]
                         ELSE @]
    /\ UNCHANGED <<channel_settings, coreVars>>

\* clear_channel_settings_cache(channel_id) called on its own
clear_channel_settings_cache(channel_id) ==
    /\ \E c \in SetChan : channel_settings_cache[c].has
    /\ channel_settings_cache' = ClearedCache(channel_settings_cache, channel_id)
    /\ op' = [u \in SetTasks |-> Outdated(op[u], channel_id)]
    /\ UNCHANGED <<channel_settings, last_change, coreVars>>

\* ------------------------------------------------------- usage batcher
\* DatabaseManager.__init__, line 18
batch_size == 50

\* log_command_usage, line 226: seconds after which a batch is written
FlushInterval == 30

\* The (channel, command) pairs whose use is recorded (one user).
HotPair == <<Owner, "dice">>
UsagePairs == {HotPair, <<Owner, "enable">>}

\* self._usage_batch = []
EmptyBatch == <<>>

\* A record of the queue: the tuple appended at line 219. Its number in the
\* order of the calls and the time of the call are kept for the claims.
Record(id, p, at) == [id |-> id, pair |-> p, at |-> at]

\* the queue after n uses of the first pair at time t and nothing written
\* yet; these records are numbered below the calls that follow
Backlog(n, t) == [i \in 1 .. n |-> Record(i - n - 1, HotPair, t)]

\* len(self._usage_batch)
BatchLen(batch) == Len(batch)

Ids(batch) == {batch[i].id : i \in 1 .. Len(batch)}

\* the records of a batch for one pair
Count(batch, p) == Cardinality({i \in 1 .. Len(batch) : batch[i].pair = p})

\* the time of the oldest record of a batch
Oldest(batch) ==
    CHOOSE t \in {batch[i].at : i \in 1 .. Len(batch)} :
        \A i \in 1 .. Len(batch) : t <= batch[i].at

NoFlush == [active |-> FALSE, batch |-> EmptyBatch, updates |-> {}, forced |-> FALSE,
            id |-> 0]

\* records waiting or being written
Pending == flush.batch \o usage_batch

UsageUpdates_perRecord(batch) ==
    {[pair |-> p, count |-> 1, times |-> Count(batch, p)] :
        p \in {q \in UsagePairs : Count(batch, q) > 0}}

\* _flush_usage_batch, lines 260-271: the records are counted per pair and
\* one UPDATE ... usage_count + count is executed for each pair
UsageUpdates(batch) ==
    {[pair |-> p, count |-> Count(batch, p), times |-> 1] :
        p \in {q \in UsagePairs : Count(batch, q) > 0}}

\* the tables written by a flush: command_usage.last_used (0: no row) and
\* custom_commands.usage_count
Tables == [last_used |-> command_usage, usage_count |-> usage_count]

\* lines 249-258: the upserts of the first j records of the batch
Upserted(tables, batch, j, at) ==
    [tables EXCEPT !.last_used =
        [p \in UsagePairs |->
            IF \E i \in 1 .. j : batch[i].pair = p THEN at ELSE @[p]]]

\* lines 265-271: the usage-count updates for the pairs of S
Updated(tables, updates, S) ==
    [tables EXCEPT !.usage_count =
        [p \in UsagePairs |->
            LET us == {u \in updates : u.pair = p /\ p \in S}
            IN IF us = {} THEN @[p]
               ELSE LET u == CHOOSE v \in us : TRUE
                    IN @[p] + u.count * u.times]]

\* what the statements of a flush have written when the last of them ends
Applied(tables, batch, updates, at) ==
    Updated(Upserted(tables, batch, Len(batch), at), updates, UsagePairs)

\* what they have written when one of them fails: some of the upserts, or
\* all of them and the updates of some pairs
Tentative(tables, batch, updates, at) ==
    {Upserted(tables, batch, j, at) : j \in 0 .. Len(batch)}
    \cup {Updated(Upserted(tables, batch, Len(batch), at), updates, S) :
            S \in SUBSET UsagePairs}

Rollback_autocommit(before, tentative) == tentative

\* line 248, async with connection.transaction(): an exception inside the
\* block undoes every statement of the block
Rollback(before, tentative) == before

Restored_behind(batch_to_process, batch) == batch \o batch_to_process

\* line 277: self._usage_batch = batch_to_process + self._usage_batch
Restored(batch_to_process, batch) == batch_to_process \o batch

FlushCatches_nothing(e) == FALSE

\* line 275: except Exception
FlushCatches(e) == TRUE

\* line 231: except Exception
LogCatches(e) == TRUE

\* the failure of a statement, of the commit or of pool.acquire
StoreError == {"connection"}

NoResult == [id |-> 0, outcome |-> "none"]

\* _flush_usage_batch up to its first await (lines 236-247): the queue is
\* copied and emptied, the timer stopped, and a connection asked for
FlushStart(batch, forced, id) ==
    /\ ~flush.active
    /\ flush' = [active |-> TRUE, batch |-> batch, updates |-> UsageUpdates(batch),
                 forced |-> forced, id |-> id]
    /\ usage_batch' = EmptyBatch
    /\ batch_timer' = 0

\* log_command_usage, lines 219-229; a call that starts no flush returns
log_command_usage(p) ==
    /\ logged < MaxLogged
    /\ LET id == logged + 1
           appended == Append(usage_batch, Record(id, p, now))
           timer == IF batch_timer = 0 THEN now ELSE batch_timer
           batch_full == BatchLen(appended) >= batch_size
           time_exceeded == now - timer >= FlushInterval
       IN /\ logged' = id
          /\ IF batch_full \/ time_exceeded
             THEN /\ FlushStart(appended, FALSE, id)
                  /\ UNCHANGED usage_result
             ELSE /\ usage_batch' = appended
                  /\ batch_timer' = timer
                  /\ usage_result' = [id |-> id, outcome |-> "returned"]
                  /\ UNCHANGED flush
    /\ UNCHANGED <<command_usage, usage_count, committed>>
    /\ UNCHANGED <<storeVars, platformVars, passVars, gateVars, clockVars,
                   settingsVars, channelVars, componentVars>>

\* DatabaseManager.close, lines 33-35: the queue is written whatever its
\* length, then the pool is closed (at once if the queue is empty)
close ==
    /\ storeUp
    /\ IF BatchLen(usage_batch) > 0
       THEN /\ FlushStart(usage_batch, TRUE, 0)
            /\ UNCHANGED storeUp
       ELSE /\ storeUp' = FALSE
            /\ UNCHANGED <<usage_batch, batch_timer, flush>>
    /\ UNCHANGED <<command_usage, usage_count, committed, logged, usage_result>>
    /\ UNCHANGED <<active, tokens, platformVars, passVars, gateVars, clockVars,
                   settingsVars, channelVars, componentVars>>

\* line 35: the flush awaited by close has ended, the pool is closed
PoolAfter(forced) == IF forced THEN FALSE ELSE storeUp

\* the caller of a flush gets control back: log_command_usage returns
Returned(outcome) ==
    IF flush.forced THEN usage_result
    ELSE [id |-> flush.id, outcome |-> outcome]

\* _flush_usage_batch, lines 247-273: the transaction commits
FlushCommit ==
    /\ flush.active
    /\ storeUp
    /\ LET after == Applied(Tables, flush.batch, flush.updates, now)
       IN /\ command_usage' = after.last_used
          /\ usage_count' = after.usage_count
    /\ committed' = committed \cup Ids(flush.batch)
    /\ flush' = NoFlush
    /\ usage_result' = Returned("returned")
    /\ storeUp' = PoolAfter(flush.forced)
    /\ UNCHANGED <<usage_batch, batch_timer, logged>>
    /\ UNCHANGED <<active, tokens, platformVars, passVars, gateVars, clockVars,
                   settingsVars, channelVars, componentVars>>

\* _flush_usage_batch, lines 275-277: the transaction fails at some statement
\* and its records are put back in front of the ones queued meanwhile
FlushFail ==
    /\ flush.active
    /\ \E tentative \in Tentative(Tables, flush.batch, flush.updates, now) :
         LET after == Rollback(Tables, tentative)
         IN /\ command_usage' = after.last_used
            /\ usage_count' = after.usage_count
    /\ IF FlushCatches(StoreError)
       THEN /\ usage_batch' = Restored(flush.batch, usage_batch)
            /\ usage_result' = Returned("returned")
       ELSE /\ UNCHANGED usage_batch
            /\ usage_result' =
                 Returned(IF LogCatches(StoreError) THEN "returned" ELSE "raised")
    /\ flush' = NoFlush
    /\ storeUp' = PoolAfter(flush.forced)
    /\ UNCHANGED <<batch_timer, logged, committed>>
    /\ UNCHANGED <<active, tokens, platformVars, passVars, gateVars, clockVars,
                   settingsVars, channelVars, componentVars>>

\* time passes between two uses of a command
Wait(d) ==
    /\ now + d <= MaxUsageClock
    /\ now' = now + d
    /\ UNCHANGED <<storeVars, platformVars, passVars, gateVars,
                   last_session_welcome, welcomes>>
    /\ UNCHANGED auxVars

\* ------------------------------------------- event_message: prefix swap
MsgTasks == 1 .. NMsgTask
IdleMsg == [pc |-> "idle", ch |-> None, channel_prefix |-> <<>>,
            original_prefix |-> <<>>, parsed |-> <<>>]

\* bot.py line 292: what get_channel_settings returns, the cached entry or
\* the row read from the store
SettingsOf(c) ==
    IF CacheHit(channel_settings_cache, c) THEN channel_settings_cache[c]
    ELSE Entry(channel_settings[c])

\* bot.py lines 281-310: event_message from the return of
\* get_channel_settings to the first suspension. The bot-wide prefix is
\* swapped for the channel's; a disabled command leaves through `finally`
\* at once; otherwise process_commands parses the message with the bot-wide
\* prefix and the task is suspended in the command or in a handler.
MessageEnter(t, c, x) ==
    /\ msg[t].pc \in {"idle", "done"}
    /\ LET settings == SettingsOf(c)
           channel_prefix == settings.prefix
           original_prefix == _prefix
           content == channel_prefix \o <<x>>
           blocked == /\ StartsWith(content, channel_prefix)
                      /\ ~is_command_enabled(settings, CommandName(content, channel_prefix))
       IN /\ channel_settings_cache' =
               [channel_settings_cache EXCEPT ![c] = settings]
          /\ _prefix' = IF blocked THEN original_prefix ELSE channel_prefix
          /\ msg' = [msg EXCEPT ![t] =
                       IF blocked
                       THEN [IdleMsg EXCEPT !.pc = "done", !.ch = c,
                                           !.channel_prefix = channel_prefix]
                       ELSE [pc |-> "processing", ch |-> c,
                             channel_prefix |-> channel_prefix,
                             original_prefix |-> original_prefix,
                             parsed |-> channel_prefix]]
    /\ UNCHANGED <<channel_settings, op, last_change, listenerVars, gameVars>>
    /\ UNCHANGED <<storeVars, platformVars, passVars, gateVars, clockVars,
                   usageVars, channelVars>>

\* lines 320-321: the command and the handlers are over, `finally` restores
\* the prefix the task found
MessageExit(t) ==
    /\ msg[t].pc = "processing"
    /\ _prefix' = msg[t].original_prefix
    /\ msg' = [msg EXCEPT ![t] = [msg[t] EXCEPT !.pc = "done",
                                               !.original_prefix = <<>>]]
    /\ UNCHANGED <<settingsVars, listenerVars, gameVars>>
    /\ UNCHANGED <<storeVars, platformVars, passVars, gateVars, clockVars,
                   usageVars, channelVars>>

\* ------------------------------------------------ custom-command listener
\* custom_cmds.py line 62: self.channel_prefixes = {} (no key: empty prefix)
NoPrefixes == [c \in SetChan |-> <<>>]
NothingHeard == [ch |-> None, prefix |-> <<>>]

\* custom_cmds.py line 197: self.channel_prefixes.get(channel_id, "!")
ListenerPrefix(prefixes, c) ==
    IF prefixes[c] = <<>> THEN DefaultPrefix ELSE prefixes[c]

\* CustomCommands.load_all_commands, lines 71-122, called when the component
\* is set up: the prefix of every active channel is read from its row; a
\* failure leaves the caches cleared and the component not loaded
load_all_commands ==
    /\ ~loaded
    /\ \/ /\ storeUp
          /\ channel_prefixes' =
               [c \in SetChan |-> IF c \in active THEN channel_settings[c].prefix
                                  ELSE <<>>]
          /\ loaded' = TRUE
       \/ /\ channel_prefixes' = NoPrefixes
          /\ UNCHANGED loaded
    /\ UNCHANGED <<listened, settingsVars, swapVars, gameVars>>
    /\ UNCHANGED <<storeVars, platformVars, passVars, gateVars, clockVars,
                   usageVars, channelVars>>

\* CustomCommands.event_message, lines 182-222: a message `typed` + command
\* name in channel c; the listener goes on to look the command up when the
\* text starts with the prefix it holds for the channel
ListenerMessage(c, typed, x) ==
    /\ loaded
    /\ LET prefix == ListenerPrefix(channel_prefixes, c)
       IN listened' = IF StartsWith(typed \o <<x>>, prefix)
                      THEN [ch |-> c, prefix |-> prefix]
                      ELSE NothingHeard
    /\ UNCHANGED <<channel_prefixes, loaded, settingsVars, swapVars, gameVars>>
    /\ UNCHANGED <<storeVars, platformVars, passVars, gateVars, clockVars,
                   usageVars, channelVars>>

\* ------------------------------------------------------- be-first game
Chatters == 1 .. NChatter

\* be_first.py line 27
response_cooldown == 5

\* _cleanup_old_records, line 64: seconds after which a response time is
\* forgotten
CleanupAge == 600

\* lines 20-26: the state a channel gets on first access; `has` tells that
\* the channel has an entry in channel_states
NewGame == [has |-> TRUE, first_found |-> FALSE, winner |-> None,
            last_response_time |-> [u \in Chatters |-> 0]]
NoGame == [NewGame EXCEPT !.has = FALSE]

IdleChat == [pc |-> "idle", ch |-> None]

\* _cleanup_old_records, lines 55-67
Cleaned(state, current_time) ==
    [state EXCEPT !.last_response_time =
        [u \in Chatters |-> IF current_time - state.last_response_time[u] > CleanupAge
                            THEN 0 ELSE state.last_response_time[u]]]

\* _should_respond, lines 44-53
ShouldRespond(state, user_id, current_time) ==
    current_time - state.last_response_time[user_id] >= response_cooldown

IsFirst_always(state) == TRUE

\* event_message, line 117: if not channel_state["first_found"]
IsFirst(state) == ~state.first_found

\* event_message, lines 106-150, from the acquisition of processing_lock to
\* the first await under it (or to the return of a chatter on cooldown)
Critical(u, c) ==
    LET state == Cleaned([channel_states[c] EXCEPT !.has = TRUE], now)
    IN IF IsFirst(state)
       THEN /\ channel_states' = [channel_states EXCEPT ![c] =
                    [state EXCEPT !.first_found = TRUE, !.winner = u]]
            /\ processing_lock' = u
            /\ chat' = [chat EXCEPT ![u] = [pc |-> "announcing", ch |-> c]]
       ELSE IF ShouldRespond(state, u, now)
       THEN /\ channel_states' = [channel_states EXCEPT ![c] =
                    [state EXCEPT !.last_response_time[u] = now]]
            /\ processing_lock' = u
            /\ chat' = [chat EXCEPT ![u] = [pc |-> "replying", ch |-> c]]
       ELSE /\ channel_states' = [channel_states EXCEPT ![c] = state]
            /\ processing_lock' = None
            /\ chat' = [chat EXCEPT ![u] = IdleChat]

\* BeFirstComponent.event_message, lines 96-106: chatter u sends "1" in
\* channel c; the task takes the lock at once if it is free
Say1(u, c) ==
    /\ chat[u].pc = "idle"
    /\ IF processing_lock = None
       THEN Critical(u, c)
       ELSE /\ chat' = [chat EXCEPT ![u] = [pc |-> "waiting", ch |-> c]]
            /\ UNCHANGED <<channel_states, processing_lock>>
    /\ UNCHANGED <<settingsVars, swapVars, listenerVars>>
    /\ UNCHANGED <<storeVars, platformVars, passVars, gateVars, clockVars,
                   usageVars, channelVars>>

\* line 106: a waiting task gets the lock (in any order)
EnterGame(u) ==
    /\ chat[u].pc = "waiting"
    /\ processing_lock = None
    /\ Critical(u, chat[u].ch)
    /\ UNCHANGED <<settingsVars, swapVars, listenerVars>>
    /\ UNCHANGED <<storeVars, platformVars, passVars, gateVars, clockVars,
                   usageVars, channelVars>>

\* lines 121-150: the announcement or the reply is sent (or fails), the
\* lock is released
LeaveGame(u) ==
    /\ chat[u].pc \in {"announcing", "replying"}
    /\ processing_lock' = None
    /\ chat' = [chat EXCEPT ![u] = IdleChat]
    /\ UNCHANGED <<channel_states, settingsVars, swapVars, listenerVars>>
    /\ UNCHANGED <<storeVars, platformVars, passVars, gateVars, clockVars,
                   usageVars, channelVars>>

\* reset_game, lines 152-164, for a channel id
ResetStates(states, channel_id) ==
    IF states[channel_id].has THEN [states EXCEPT ![channel_id] = NewGame]
    ELSE states

\* time passes between two messages
Pause(d) ==
    /\ now + d <= MaxGameClock
    /\ now' = now + d
    /\ UNCHANGED <<storeVars, platformVars, passVars, gateVars,
                   last_session_welcome, welcomes>>
    /\ UNCHANGED auxVars

\* reset_command, lines 183-184: reset_game(ctx.broadcaster.id)
reset_game(channel_id) ==
    /\ channel_states' = ResetStates(channel_states, channel_id)
    /\ UNCHANGED <<processing_lock, chat, settingsVars, swapVars, listenerVars>>
    /\ UNCHANGED <<storeVars, platformVars, passVars, gateVars, clockVars,
                   usageVars, channelVars>>

\* -------------------------------------------------------- channel store
\* The tables channels and channel_settings as add_channel and remove_channel
\* write them. channel_rows counts the rows of an id, `active` holds the ids
\* whose row has is_active = true, settings_rows holds the settings row of
\* an id.
\* `fresh` records that the id had no row in channels when the call was made
\* (kept for the claims).
NoCall == [op |-> "none", channel_id |-> None, result |-> FALSE, fresh |-> FALSE]

Called(op_name, c, result) ==
    [op |-> op_name, channel_id |-> c, result |-> result,
     fresh |-> channel_rows[c] = 0]

NoRow == [has |-> FALSE, prefix |-> <<>>, disabled |-> {}]

\* column defaults of postgres/schema.sql: a row inserted without is_active
\* is active; a settings row inserted with its id only has prefix '!' and
\* empty settings
NewChannelActive == TRUE
NewSettingsRow == [has |-> TRUE, prefix |-> DefaultPrefix, disabled |-> {}]

ChannelTables ==
    [rows |-> channel_rows, active |-> active, settings |-> settings_rows]

\* get_active_channels, lines 108-111: the number of dicts of the list that
\* carry channel id c
ActiveListed(c) == IF c \in active THEN channel_rows[c] ELSE 0

\* get_channels_with_tokens, lines 117-123: the same for the join with tokens
TokenListed(c) == IF c \in active \cap tokens THEN channel_rows[c] ELSE 0

\* database.get_channel_settings, lines 172-189, answered by the store
get_channel_settings(c) ==
    IF settings_rows[c].has
    THEN [prefix |-> settings_rows[c].prefix, disabled |-> settings_rows[c].disabled]
    ELSE [prefix |-> DefaultPrefix, disabled |-> {}]

\* lines 135-141: INSERT INTO channels ... ON CONFLICT (channel_id) DO NOTHING
InsertChannel(t, c) ==
    IF t.rows[c] > 0 THEN t
    ELSE [t EXCEPT !.rows[c] = 1,
                   !.active = IF NewChannelActive THEN @ \cup {c} ELSE @ \ {c}]

InsertSettings_skipped(t, c) == t

\* lines 142-146: INSERT INTO channel_settings ... ON CONFLICT DO NOTHING
InsertSettings(t, c) ==
    IF t.settings[c].has THEN t
    ELSE [t EXCEPT !.settings[c] = NewSettingsRow]

Deactivated_deleted(t, c) ==
    [t EXCEPT !.rows[c] = 0, !.active = @ \ {c}]

\* lines 159-162: UPDATE channels SET is_active = false WHERE channel_id = $1
Deactivated(t, c) == [t EXCEPT !.active = @ \ {c}]

\* line 163: "UPDATE 1" in result
UpdatedOne(t, c) == t.rows[c] = 1

\* what add_channel has executed when an exception leaves the transaction:
\* nothing, the first statement, or both (the commit fails)
AddTentative(t, c) ==
    {t, InsertChannel(t, c), InsertSettings(InsertChannel(t, c), c)}

ChannelStore(t, call) ==
    /\ channel_rows' = t.rows
    /\ active' = t.active
    /\ settings_rows' = t.settings
    /\ channel_call' = call
    /\ UNCHANGED <<tokens, storeUp, platformVars, passVars, gateVars, clockVars,
                   settingsVars, usageVars, componentVars>>

\* add_channel, lines 128-153: both statements commit and the call returns
\* True, or an exception leaves the transaction and the call returns False
add_channel(c) ==
    \/ /\ storeUp
       /\ ChannelStore(InsertSettings(InsertChannel(ChannelTables, c), c),
                       Called("add", c, TRUE))
    \/ \E tentative \in AddTentative(ChannelTables, c) :
          ChannelStore(Rollback(ChannelTables, tentative),
                       Called("add", c, FALSE))

\* remove_channel, lines 155-166
remove_channel(c) ==
    \/ /\ storeUp
       /\ ChannelStore(Deactivated(ChannelTables, c),
                       Called("remove", c, UpdatedOne(ChannelTables, c)))
    \/ ChannelStore(ChannelTables, Called("remove", c, FALSE))

\* set_prefix_command, system_cmds.py lines 713-720, in a channel the bot has
\* been added to: the prefix is written, the row is created if missing
UpsertPrefix(c, prefix) ==
    /\ storeUp
    /\ channel_rows[c] > 0
    /\ PrefixAccepted(prefix)
    /\ settings_rows' =
         [settings_rows EXCEPT ![c] =
            IF settings_rows[c].has THEN [settings_rows[c] EXCEPT !.prefix = prefix]
            ELSE [NewSettingsRow EXCEPT !.prefix = prefix]]
    /\ UNCHANGED <<channel_rows, channel_call>>
    /\ UNCHANGED <<storeVars, platformVars, passVars, gateVars, clockVars,
                   settingsVars, usageVars, componentVars>>

\* The channel store stops answering (the pool raises on every query from
\* here on): an outage between two awaits of the startup path.
StoreOutage ==
    /\ storeUp
    /\ storeUp' = FALSE
    /\ UNCHANGED <<active, tokens, platformVars, passVars, gateVars, clockVars>>
    /\ UNCHANGED auxVars

\* -------------------------------------------------------- specification
\* The state after construction. The store content and the platform's quota
\* are whatever the deployment has; a run meets at most one kind of trouble:
\* an exhausted quota, a transport failure, or a store that does not answer.
Healthy ==
    /\ storeUp
    /\ glitch = NoGlitch
    /\ budget \in 0 .. Unlimited
    /\ quotaText \in IF budget = Unlimited THEN {{"429"}} ELSE QuotaTexts

Glitchy ==
    /\ storeUp
    /\ glitch \in TransientTexts
    /\ budget = Unlimited
    /\ quotaText = {"429"}

StoreDown ==
    /\ ~storeUp
    /\ glitch = NoGlitch
    /\ budget = Unlimited
    /\ quotaText = {"429"}

\* The batcher after n uses of the first pair at start-up time, none of them
\* written yet (n below the batch size).
Backlogged(n) ==
    /\ usage_batch = Backlog(n, DebounceWindow)
    /\ batch_timer = IF n = 0 THEN 0 ELSE DebounceWindow
    /\ flush = NoFlush
    /\ command_usage = [p \in UsagePairs |-> 0]
    /\ usage_count = [p \in UsagePairs |-> 0]
    /\ logged = 0
    /\ committed = {}
    /\ usage_result = NoResult

InitOthers ==
    /\ active \in SUBSET Chan
    /\ tokens \in SUBSET Chan
    /\ scopeOk \in SUBSET (tokens \cap active)
    /\ storeUp \in BOOLEAN
    /\ live = {}
    /\ Healthy \/ Glitchy \/ StoreDown
    /\ pass = [p \in Passes |-> IdlePass]
    /\ started = 0
    /\ lock = NoTask
    /\ waiters = <<>>
    /\ service_initialized = FALSE
    /\ task = [t \in Tasks |-> IdleTask]
    /\ initRuns = 0
    /\ now = DebounceWindow
    /\ last_session_welcome = 0
    /\ welcomes = <<>>
    /\ channel_settings = [c \in SetChan |-> DefaultSettings]
    /\ channel_settings_cache = [c \in SetChan |-> NoEntry]
    /\ op = [t \in SetTasks |-> IdleOp]
    /\ last_change = [c \in SetChan |-> NoChange]
    /\ _prefix = DefaultPrefix
    /\ msg = [t \in MsgTasks |-> IdleMsg]
    /\ channel_prefixes = NoPrefixes
    /\ loaded = FALSE
    /\ listened = NothingHeard
    /\ channel_states = [c \in SetChan |-> NoGame]
    /\ processing_lock = None
    /\ chat = [u \in Chatters |-> IdleChat]

\* The channel tables of a deployment where no channel was removed yet.
NeverRemoved ==
    /\ channel_rows = [c \in Chan |-> IF c \in active THEN 1 ELSE 0]
    /\ settings_rows = [c \in Chan |-> IF c \in active THEN NewSettingsRow ELSE NoRow]
    /\ channel_call = NoCall

Init == InitOthers /\ Backlogged(0) /\ NeverRemoved

Next ==
    \/ first_pass
    \/ \E cid \in {None} \cup Chan, adv \in BOOLEAN : subscribe_eventsub(cid, adv)
    \/ \E p \in Passes : FetchChannels(p)
    \/ \E p \in Passes : FetchTokens(p)
    \/ \E p \in Passes, n \in 1 .. NChan : BasicStep(p, n)
    \/ \E p \in Passes : ChatStep(p)
    \/ \E p \in Passes : AdvStep(p)

Spec == Init /\ [][Next]_vars

\* One step of pass p: each await of subscribe_all_events is a store query
\* or a subscription request, which returns or raises.
PassStep(p) ==
    \/ FetchChannels(p)
    \/ FetchTokens(p)
    \/ \E n \in 1 .. NChan : BasicStep(p, n)
    \/ ChatStep(p)
    \/ AdvStep(p)

\* The start-up pass alone, from every store content, quota and trouble.
NextLive ==
    \/ first_pass
    \/ \E p \in Passes : PassStep(p)

\* the event loop resumes a pass whose awaited call has completed
SpecLive == Init /\ [][NextLive]_vars /\ \A p \in Passes : WF_vars(PassStep(p))

\* The reconnect handler under a running clock; passes may overlap.
NextReconnect ==
    \/ handle_websocket_reconnect
    \/ \E d \in {3, 7} : Tick(d)
    \/ \E p \in Passes : FetchChannels(p)
    \/ \E p \in Passes : FetchTokens(p)
    \/ \E p \in Passes, n \in 1 .. NChan : BasicStep(p, n)
    \/ \E p \in Passes : ChatStep(p)
    \/ \E p \in Passes : AdvStep(p)

\* The store and the platform are healthy here: the owner's channel holds a
\* credential, the other channels do not.
InitReconnect ==
    /\ Init
    /\ active = Chan
    /\ tokens = {Owner}
    /\ scopeOk = {Owner}
    /\ storeUp
    /\ budget = Unlimited
    /\ glitch = NoGlitch

SpecReconnect == InitReconnect /\ [][NextReconnect]_vars

\* Startup: setup_hook and the add_token calls of the OAuth callback.
NextGate ==
    \/ SetupStart
    \/ SetupLoad
    \/ \E t \in Tasks : InitAcquire(t)
    \/ \E t \in Tasks : InitCheck(t)
    \/ \E t \in Tasks : InitDefaultChannel(t)
    \/ \E t \in Tasks : InitSubscribe(t)
    \/ \E t \in Tasks : InitDone(t)
    \/ \E a \in AddTokenTasks : AddTokenAcquire(a)
    \/ \E a \in AddTokenTasks : AddTokenCheck(a)
    \/ \E a \in AddTokenTasks : AddTokenStore(a)
    \/ \E a \in AddTokenTasks : AddTokenReturn(a)
    \/ StoreOutage
    \/ \E p \in Passes : FetchChannels(p)
    \/ \E p \in Passes : FetchTokens(p)
    \/ \E p \in Passes, n \in 1 .. NChan : BasicStep(p, n)
    \/ \E p \in Passes : ChatStep(p)
    \/ \E p \in Passes : AdvStep(p)

\* No transport failure here; the quota may be short and the store down.
InitGate ==
    /\ Init
    /\ scopeOk = tokens \cap active
    /\ budget \in {0, Unlimited}
    /\ glitch = NoGlitch

SpecGate == InitGate /\ [][NextGate]_vars

\* The settings cache under lookups of both channels, prefix changes in the
\* owner's channel and invalidations.
NextCache ==
    \/ \E t \in SetTasks, c \in SetChan : Call(t, "get", c, "-", <<>>)
    \/ \E t \in SetTasks : StoreRead(t)
    \/ \E t \in SetTasks : Fill(t)
    \/ \E t \in SetTasks, prefix \in PrefixArgs : SetPrefix(t, Owner, prefix)
    \/ \E t \in SetTasks : StoreWrite(t)
    \/ \E t \in SetTasks : Invalidate(t)
    \/ \E cid \in {None} \cup SetChan : clear_channel_settings_cache(cid)

\* The EventSub side is at rest here.
EventSubAtRest ==
    /\ active = Chan
    /\ tokens = {}
    /\ scopeOk = {}
    /\ Healthy
    /\ budget = Unlimited

InitSettings == Init /\ EventSubAtRest

SpecCache == InitSettings /\ [][NextCache]_vars

\* Chat messages and the moderator commands that edit the disabled list, in
\* the owner's channel; lookups in both channels.
NextCommands ==
    \/ \E t \in SetTasks, c \in SetChan, x \in Commands :
          Call(t, "enabled", c, x, <<>>)
    \/ \E t \in SetTasks, x \in Commands :
          Call(t, "disable", Owner, x, <<>>)
    \/ \E t \in SetTasks, x \in Commands :
          Call(t, "enable", Owner, x, <<>>)
    \/ \E t \in SetTasks, x \in Commands, typed \in {DefaultPrefix, Rep(1)} :
          Call(t, "message", Owner, x, typed)
    \/ \E t \in SetTasks : StoreRead(t)
    \/ \E t \in SetTasks : Fill(t)
    \/ \E t \in SetTasks : StoreWrite(t)
    \/ \E t \in SetTasks : Invalidate(t)

SpecCommands == InitSettings /\ [][NextCommands]_vars

\* The usage batcher: commands are used, time passes, batches are written.
NextUsage ==
    \/ \E p \in UsagePairs : log_command_usage(p)
    \/ close
    \/ FlushCommit
    \/ FlushFail
    \/ \E d \in {FlushInterval - 1, FlushInterval} : Wait(d)

\* The batcher is watched from start-up, or from the moment the queue holds
\* a backlog two short of the batch size.
Backlogs == {0, batch_size - 2}

InitUsage ==
    /\ InitOthers
    /\ NeverRemoved
    /\ EventSubAtRest
    /\ \E n \in Backlogs : Backlogged(n)

SpecUsage == InitUsage /\ [][NextUsage]_vars

\* Full passes while channels are added and removed, also between the two
\* list queries of a pass; the platform has quota for every request.
NextRemoval ==
    \/ first_pass
    \/ subscribe_eventsub(None, FALSE)
    \/ \E p \in Passes : PassStep(p)
    \/ \E c \in Chan : add_channel(c)
    \/ \E c \in Chan : remove_channel(c)

\* The owner's channel is still to be added and has completed OAuth; the
\* credentials of an active channel, if it has any, carry the scopes of the
\* advanced tier.
InitRemoval ==
    /\ Init
    /\ Healthy
    /\ budget = Unlimited
    /\ active = Chan \ {Owner}
    /\ Owner \in tokens
    /\ scopeOk = tokens \cap active

SpecRemoval == InitRemoval /\ [][NextRemoval]_vars

\* The channel tables under add_channel, remove_channel and prefix changes.
NextChannels ==
    \/ \E c \in Chan : add_channel(c)
    \/ \E c \in Chan : remove_channel(c)
    \/ \E c \in Chan, prefix \in PrefixArgs : UpsertPrefix(c, prefix)

\* Any channel tables the three operations can have left behind.
InitChannels ==
    /\ InitOthers
    /\ Backlogged(0)
    /\ scopeOk = {}
    /\ Healthy \/ StoreDown
    /\ budget = Unlimited
    /\ channel_rows \in [Chan -> {0, 1}]
    /\ active \subseteq {c \in Chan : channel_rows[c] = 1}
    /\ settings_rows = [c \in Chan |-> IF channel_rows[c] = 1 THEN NewSettingsRow ELSE NoRow]
    /\ channel_call = NoCall

SpecChannels == InitChannels /\ [][NextChannels]_vars

\* Messages of both channels pass through event_message while the prefix of
\* the second channel is changed by its moderators.
NextSwap ==
    \/ \E t \in MsgTasks, c \in SetChan, x \in Commands : MessageEnter(t, c, x)
    \/ \E t \in MsgTasks : MessageExit(t)
    \/ \E t \in SetTasks, prefix \in PrefixArgs : SetPrefix(t, NChan, prefix)
    \/ \E t \in SetTasks : StoreWrite(t)
    \/ \E t \in SetTasks : Invalidate(t)

SpecSwap == InitSettings /\ [][NextSwap]_vars

\* The custom-command listener is loaded and hears messages of both channels
\* while the prefix of the owner's channel is changed.
NextListener ==
    \/ load_all_commands
    \/ \E c \in SetChan, typed \in {DefaultPrefix, Rep(PrefixLimit)}, x \in Commands :
          ListenerMessage(c, typed, x)
    \/ \E t \in SetTasks, prefix \in PrefixArgs : SetPrefix(t, Owner, prefix)
    \/ \E t \in SetTasks : StoreWrite(t)
    \/ \E t \in SetTasks : Invalidate(t)

SpecListener == InitSettings /\ [][NextListener]_vars

\* The be-first game of two channels: chatters send "1", moderators reset
\* the game, time passes.
NextGame ==
    \/ \E u \in Chatters, c \in SetChan : Say1(u, c)
    \/ \E u \in Chatters : EnterGame(u)
    \/ \E u \in Chatters : LeaveGame(u)
    \/ \E c \in SetChan : reset_game(c)
    \/ Pause(response_cooldown)

SpecGame == InitSettings /\ [][NextGame]_vars

\* ================================================================ claims
\* the quota signal of the specification: the error text contains '429' or
\* 'cost exceeded'
QuotaSignal(e) == "429" \in e \/ "cost exceeded" \in e

FullPass(P) ==
    P.pc \notin {"idle", "forgotten"} /\ P.channel_id = None /\ ~P.advanced_only

\* the requests of a pass, as <<channel, kind, outcome>>
ChatRequests(P) == {<<P.chatLog[n][1], "chat", P.chatLog[n][2]>> : n \in 1 .. Len(P.chatLog)}
Requests(P) == P.basicLog \cup ChatRequests(P) \cup SeqSet(P.advLog)
Targets(R) == {<<r[1], r[2]>> : r \in R}

\* C1: in a full pass the chat-only attempts follow the list of unauthorized
\* channels one by one; an attempt answered with a quota signal is the last
\* chat-only attempt of the pass, and every channel before it was attempted.
C1_ChatOnlyStopsAtQuota ==
    \A p \in Passes :
        LET P == pass[p]
            cwot == P.channels_without_tokens
        IN FullPass(P) =>
            /\ Len(P.chatLog) <= Len(cwot)
            /\ \A n \in 1 .. Len(P.chatLog) :
                 /\ P.chatLog[n][1] = cwot[n]
                 /\ QuotaSignal(P.chatLog[n][2]) => n = Len(P.chatLog)
            /\ P.pc \in {"adv", "done"} =>
                 \/ Len(P.chatLog) = Len(cwot)
                 \/ QuotaSignal(P.chatLog[Len(P.chatLog)][2])

\* C1 witness: the quota signal came at a channel that is not the last one,
\* and the pass went on without attempting the later channel.
C1_Witness ==
    \E p \in Passes :
        LET P == pass[p]
        IN /\ FullPass(P) /\ P.pc \in {"adv", "done"}
           /\ P.chatLog # <<>>
           /\ Len(P.chatLog) < Len(P.channels_without_tokens)
           /\ QuotaSignal(P.chatLog[Len(P.chatLog)][2])

\* C2: in the advanced tier a request answered with a quota signal is the
\* last advanced request of the pass: no later kind, no later channel.
C2_AdvancedStopsAtQuota ==
    \A p \in Passes :
        LET P == pass[p]
        IN \A n \in 1 .. Len(P.advLog) :
             QuotaSignal(P.advLog[n][3]) =>
                 /\ n = Len(P.advLog)
                 /\ P.pc = "done"

\* C2 witness: the quota signal came before the last kind of the last
\* channel, so requests were left out.
C2_Witness ==
    \E p \in Passes :
        LET P == pass[p]
        IN /\ P.advLog # <<>>
           /\ QuotaSignal(P.advLog[Len(P.advLog)][3])
           /\ Len(P.advLog) < Len(AdvKinds) * Len(P.channels_with_tokens)
           /\ Len(P.channels_with_tokens) > 1

\* C3: a request rejected as 'already exists' does not halt the pass: the
\* kind or channel that follows it in its tier is still attempted.
C3_AlreadyExistsNeverHalts ==
    \A p \in Passes :
        LET P == pass[p]
        IN /\ \A n \in 1 .. Len(P.chatLog) :
                (P.chatLog[n][2] = TxtExists /\ P.pc \in {"adv", "done"}
                 /\ n < Len(P.channels_without_tokens))
                => Len(P.chatLog) > n
           /\ \A n \in 1 .. Len(P.advLog) :
                (P.advLog[n][3] = TxtExists /\ P.pc = "done"
                 /\ n < Len(AdvKinds) * Len(P.channels_with_tokens))
                => Len(P.advLog) > n
           /\ \A r \in P.basicLog, m \in 1 .. 2 :
                (r[3] = TxtExists /\ r[2] = BasicKinds[m] /\ P.pc # "basic")
                => \E r2 \in P.basicLog : r2[1] = r[1] /\ r2[2] = BasicKinds[m + 1]

\* two full passes in succession: p - 1 has returned, p is the next one
Successive(p) ==
    /\ p > 1
    /\ FullPass(pass[p]) /\ FullPass(pass[p - 1])
    /\ pass[p - 1].pc = "done"

Scenario(P) ==
    /\ FullPass(P)
    /\ Len(P.channels) = 2
    /\ Len(P.channels_without_tokens) = 1
    /\ Len(P.channels_with_tokens) = 1
    /\ budget = Unlimited
    /\ P.faults = 0

\* C5: in the scenario the pass attempts exactly chat for A, the three basic
\* kinds for B and the four advanced kinds for B in their fixed order, the
\* advanced ones after all the others.
C5_ScenarioAttempts ==
    \A p \in Passes :
        LET P == pass[p]
            A == P.channels_without_tokens[1]
            B == P.channels_with_tokens[1]
        IN Scenario(P) =>
            /\ P.advLog # <<>> => P.pc \in {"adv", "done"}
            /\ P.pc = "done" =>
                 /\ P.chatLog = <<<<A, P.chatLog[1][2]>>>>
                 /\ Targets(P.basicLog) = {<<B, BasicKinds[m]>> : m \in 1 .. 3}
                 /\ [n \in 1 .. Len(P.advLog) |-> <<P.advLog[n][1], P.advLog[n][2]>>]
                      = [n \in 1 .. 4 |-> <<B, AdvKinds[n]>>]

\* C6: a pass called with a channel_id (not advanced_only) issues requests
\* for that channel only.
C6_ScopedToChannel ==
    \A p \in Passes :
        LET P == pass[p]
        IN (P.channel_id # None /\ ~P.advanced_only) =>
             \A r \in Requests(P) : r[1] = P.channel_id

\* C7: an advanced_only pass issues no chat, stream-online or raid request;
\* its requests are advanced kinds for active channels holding a credential
\* and, with a channel_id, for that channel only (none if it is not active).
C7_AdvancedOnly ==
    \A p \in Passes :
        LET P == pass[p]
        IN P.advanced_only =>
             /\ P.basicLog = {} /\ P.chatLog = <<>>
             /\ \A r \in Requests(P) :
                  /\ r[2] \in SeqSet(AdvKinds)
                  /\ r[1] \in active \cap tokens
                  /\ P.channel_id # None => r[1] = P.channel_id
             /\ (P.channel_id # None /\ P.channel_id \notin active) => Requests(P) = {}

\* C7 witness: an advanced_only pass for one channel issued requests while
\* another active channel holds a credential too.
C7_Witness ==
    \E p \in Passes :
        LET P == pass[p]
        IN /\ P.advanced_only /\ P.channel_id # None
           /\ P.advLog # <<>>
           /\ (active \cap tokens) \ {P.channel_id} # {}

\* the reconnect passes started so far
ReconnectPasses == {p \in Passes : pass[p].pc # "idle" /\ pass[p].is_reconnect}
Handled(n) == welcomes[n].pass # None

\* C8: the first reconnect call starts a pass; of two calls less than 10
\* seconds apart of which the earlier started a pass, the later starts none;
\* every pass with is_reconnect set was started by exactly one handled call.
C8_DebounceOnePass ==
    /\ welcomes # <<>> => Handled(1)
    /\ \A m, n \in 1 .. Len(welcomes) :
         (m < n /\ welcomes[n].at - welcomes[m].at < DebounceWindow /\ Handled(m))
         => ~Handled(n)
    /\ ReconnectPasses = {welcomes[n].pass : n \in {m \in 1 .. Len(welcomes) : Handled(m)}}
    /\ \A m, n \in 1 .. Len(welcomes) :
         (Handled(m) /\ Handled(n) /\ welcomes[m].pass = welcomes[n].pass) => m = n

\* C8 witness: a second call arrived within the window while the pass of the
\* first one was still running, and started nothing.
C8_Witness ==
    /\ Len(welcomes) >= 2
    /\ Handled(1) /\ ~Handled(2)
    /\ welcomes[2].at - welcomes[1].at < DebounceWindow
    /\ welcomes[2].at > welcomes[1].at
    /\ Running(welcomes[1].pass)
    /\ Cardinality(ReconnectPasses) = 1

\* C9: an add_token that stored the first token is never left waiting for
\* the initialization gate while the gate is held by that same call (a wait
\* that cannot end, so that add_token would not return).
C9_GateNeverBlocksForever ==
    \A a \in AddTokenTasks :
        (task[a].was_empty /\ task[a].pc = "wait_init_check") => lock # a

\* the task is executing the initialization sequence (lines 102-114)
InInit(t) == task[t].pc \in {"init_default", "init_subscribe", "init_pass"}

\* C10: at most one task is inside the initialization sequence, the
\* initialized flag is read only by the task holding the gate, and the
\* sequence runs to its end at most once.
C10_GateExcludes ==
    /\ Cardinality({t \in Tasks : InInit(t)}) <= 1
    /\ \A t \in Tasks : (InInit(t) \/ task[t].pc \in {"init_check", "at_store"}) => lock = t
    /\ initRuns <= 1
    /\ service_initialized <=> initRuns = 1

\* C10 witness: setup_hook is inside the initialization sequence, awaiting
\* the first pass, while an add_token call is queued at the gate.
C10_Witness ==
    \E a \in AddTokenTasks :
        /\ task[Setup].pc = "init_pass"
        /\ task[a].pc = "wait_at_check"
        /\ Running(task[Setup].p)

\* C11: the initialized flag is never true while the first pass of the
\* initialization could not fetch the channel list: a store that does not
\* answer makes initialize_services fail, and the flag stays false.
C11_FlagNeedsChannelList ==
    \A t \in Tasks :
        (task[t].p # None /\ pass[task[t].p].pc = "done"
         /\ pass[task[t].p].summary = "failed")
        => ~service_initialized

\* the requests of a pass that the platform or the transport failed
Failed(P) == {r \in Requests(P) : r[3] # Ok}

\* C12: no failure of a subscription request leaves subscribe_all_events:
\* no pass ends by raising, and a pass that has issued a request and is over
\* has returned to its caller.
C12_NoRequestFailurePropagates ==
    \A p \in Passes :
        /\ pass[p].pc # "raised"
        /\ (Failed(pass[p]) # {} /\ ~Running(p)) => pass[p].pc = "done"

\* C12 witness: a pass has returned although requests of it failed with an
\* unclassified error, with a quota rejection or with 'already exists'.
C12_Witness ==
    \E p \in Passes :
        /\ pass[p].pc = "done"
        /\ \E r \in Failed(pass[p]) : r[3] \in TransientTexts \cup QuotaTexts
        /\ Cardinality(Failed(pass[p])) > 1

\* C13: the cache never holds, after an invalidation of a channel's entry,
\* a value that was read from the store before that invalidation: a
\* get_channel_settings that starts after the invalidation has returned
\* reads the store afresh or returns a value read after the invalidation.
C13_FreshAfterInvalidation ==
    \A c \in SetChan : ~channel_settings_cache[c].pre

\* C14: once a prefix change has replied success (and nothing else was
\* written to the row since), every get_channel_settings that starts later
\* returns the written prefix, and the cache holds no other prefix for the
\* channel, whatever reads were in progress during the change.
C14_ReadsSeeTheWrite ==
    /\ \A t \in SetTasks :
         (op[t].pc = "done" /\ op[t].kind = "get" /\ op[t].res = "value"
          /\ op[t].saw.kind = "setprefix")
         => op[t].settings.prefix = op[t].saw.pfx
    /\ \A c \in SetChan :
         (last_change[c].kind = "setprefix" /\ channel_settings_cache[c].has)
         => channel_settings_cache[c].prefix = last_change[c].pfx

\* C15: a get_channel_settings whose store read fails writes nothing to the
\* cache: the step that delivers the failure leaves the cache as it was, so
\* an absent entry stays absent and the next lookup of the channel reads the
\* store again.
C15_FailedReadNotCached ==
    [][\A t \in SetTasks :
         (op[t].pc = "read" /\ op'[t].pc = "done" /\ op'[t].res = "raised")
         => channel_settings_cache' = channel_settings_cache]_vars

\* C15 witness: a lookup has failed, the cache holds no entry, and another
\* lookup is reading the store.
C15_Witness ==
    /\ \E t \in SetTasks : op[t].pc = "done" /\ op[t].res = "raised"
    /\ \E t \in SetTasks : op[t].pc = "read"
    /\ \A c \in SetChan : ~channel_settings_cache[c].has

\* C16: a chat message whose settings lookup fails is still processed
\* (commands and message handlers run): no message is dropped.
C16_LookupFailureStillProcessed ==
    \A t \in SetTasks :
        ~(op[t].pc = "done" /\ op[t].kind = "message" /\ op[t].res = "dropped")

\* C17: an is_command_enabled(c, x) that starts after disable x has replied
\* success in c (nothing written to the row since) returns false, and one
\* that starts after enable x has replied success returns true.
C17_ChangeVisibleAtOnce ==
    \A t \in SetTasks :
        (op[t].pc = "done" /\ op[t].kind = "enabled") =>
            /\ op[t].saw.kind = "disable" => op[t].res = "false"
            /\ op[t].saw.kind = "enable" => op[t].res = "true"

\* the commands a moderator needs to undo a disable
Protected == {"enable", "disable"}

\* C18: no protected command is ever in a channel's disabled list, in the
\* store or in the cache, and event_message never blocks one.
C18_ProtectedNeverDisabled ==
    /\ \A c \in SetChan :
         /\ channel_settings[c].disabled \cap Protected = {}
         /\ channel_settings_cache[c].disabled \cap Protected = {}
    /\ \A t \in SetTasks :
         ~(op[t].pc = "done" /\ op[t].kind = "message" /\ op[t].res = "blocked"
           /\ op[t].x \in Protected)

\* C19: the prefix stored for a channel, and any cached copy, is non-empty
\* and at most 5 characters long; a set-prefix request that is rejected
\* leaves the rows and the cache unchanged. (A row created by add_channel
\* holds the default prefix, as a missing row reads.)
C19_PrefixWithinBounds ==
    /\ [](\A c \in SetChan :
            /\ Len(channel_settings[c].prefix) \in 1 .. PrefixLimit
            /\ channel_settings_cache[c].has =>
                 Len(channel_settings_cache[c].prefix) \in 1 .. PrefixLimit)
    /\ [][\A t \in SetTasks :
            (op'[t] # op[t] /\ op'[t].res = "rejected")
            => UNCHANGED <<channel_settings, channel_settings_cache>>]_vars

\* C19 witness: an empty or too long prefix was rejected while a channel
\* holds a prefix of the greatest length allowed, also in the cache.
C19_Witness ==
    /\ \E t \in SetTasks : op[t].pc = "done" /\ op[t].res = "rejected"
    /\ \E c \in SetChan :
         /\ channel_settings[c].prefix = Rep(PrefixLimit)
         /\ channel_settings_cache[c].has
         /\ channel_settings_cache[c].prefix = Rep(PrefixLimit)

\* C20: a log_command_usage call that leaves fewer than batch_size records
\* in the queue, less than FlushInterval seconds after the first of them,
\* starts no flush; and a flush of N records of one pair issues exactly one
\* usage-count update for that pair, of +N.
C20_BatchedIncrement ==
    /\ [](flush.active =>
            \A p \in UsagePairs :
                /\ Count(flush.batch, p) > 0 =>
                     {u \in flush.updates : u.pair = p}
                         = {[pair |-> p, count |-> Count(flush.batch, p), times |-> 1]}
                /\ Count(flush.batch, p) = 0 =>
                     {u \in flush.updates : u.pair = p} = {})
    /\ [][(/\ logged' = logged + 1
           /\ BatchLen(usage_batch) + 1 < batch_size
           /\ batch_timer = 0 \/ now - batch_timer < FlushInterval)
          => /\ flush' = flush
             /\ BatchLen(usage_batch') = BatchLen(usage_batch) + 1]_vars

\* C20 witness: after several uses of one command within the interval, with
\* no flush in between, the forced flush is writing them.
C20_Witness ==
    /\ flush.active
    /\ flush.forced
    /\ Count(flush.batch, HotPair) \in 2 .. batch_size - 1
    /\ usage_batch = EmptyBatch

\* C21: a log_command_usage call starts a flush exactly when, with its
\* record appended, the queue holds at least batch_size records or its
\* oldest record is at least FlushInterval seconds old.
C21_FlushWhenDue ==
    [][logged' = logged + 1 =>
         LET ran == flush' # flush
             queue == IF ran THEN flush'.batch ELSE usage_batch'
             due == \/ BatchLen(queue) >= batch_size
                    \/ now - Oldest(queue) >= FlushInterval
         IN ran <=> due]_vars

C23_AllOrNothing ==
    [][(flush.active /\ ~flush'.active) =>
         IF committed' # committed
         THEN \A p \in UsagePairs :
                /\ usage_count'[p] = usage_count[p] + Count(flush.batch, p)
                /\ command_usage'[p] =
                     IF Count(flush.batch, p) > 0 THEN now ELSE command_usage[p]
         ELSE UNCHANGED <<command_usage, usage_count>>]_vars

\* C23 witness: one flush has committed records of both pairs and a later one
\* has failed, leaving its records in the queue with the timer stopped.
C23_Witness ==
    /\ \A p \in UsagePairs : usage_count[p] > 0
    /\ ~flush.active
    /\ batch_timer = 0
    /\ usage_batch # EmptyBatch

\* C24: every log_command_usage call returns normally, and when it returns
\* its record is in the queue or committed.
C24_NeverRaises ==
    [][usage_result' # usage_result =>
         /\ usage_result'.outcome = "returned"
         /\ \/ usage_result'.id \in Ids(usage_batch')
            \/ usage_result'.id \in committed']_vars

\* C24 witness: a call whose flush failed has returned, its record back in
\* the queue, and a call whose flush committed has returned before.
C24_Witness ==
    /\ usage_result.outcome = "returned"
    /\ ~flush.active
    /\ batch_timer = 0
    /\ usage_result.id \in Ids(usage_batch)
    /\ \E id \in committed : id > 0

\* a call of the channel store on id c has just returned
ChannelCallReturned(op_name, c) ==
    /\ channel_call' # channel_call
    /\ channel_call'.op = op_name
    /\ channel_call'.channel_id = c

\* C25: after any sequence of add_channel and remove_channel calls, when
\* add_channel(c) has returned true the list of get_active_channels read
\* right after it contains c exactly once, also when c had been added and
\* removed before.
C25_AddedThenListed ==
    (channel_call.op = "add" /\ channel_call.result)
        => ActiveListed(channel_call.channel_id) = 1

\* C26: add_channel creates the channel record and the settings record
\* together or not at all: every channel record has its settings record, a
\* call that returns true leaves both, a call that returns false leaves the
\* tables as they were; and after a successful add_channel of an id that had
\* no record get_channel_settings returns prefix '!' and an empty disabled
\* set.
C26_CreatedTogether ==
    /\ [](\A c \in Chan : channel_rows[c] > 0 <=> settings_rows[c].has)
    /\ [][\A c \in Chan :
            ChannelCallReturned("add", c) =>
              /\ IF channel_call'.result
                 THEN channel_rows'[c] = 1 /\ settings_rows'[c].has
                 ELSE UNCHANGED <<channel_rows, active, settings_rows>>
              /\ (channel_call'.result /\ channel_call'.fresh)
                    => get_channel_settings(c)' = DefaultSettings]_vars

\* an id without a record was added, while another channel has a prefix of
\* its own
C26_Witness ==
    /\ channel_call.op = "add" /\ channel_call.result /\ channel_call.fresh
    /\ settings_rows[channel_call.channel_id] = NewSettingsRow
    /\ \E c \in Chan : settings_rows[c].has /\ settings_rows[c].prefix # DefaultPrefix

\* C27: remove_channel only flips the active flag: no call ever takes a
\* channel record away or adds a second one, so every id ever added has
\* exactly one record; a remove_channel that returns true changes nothing
\* but the flag, and the id is then absent from get_active_channels and from
\* get_channels_with_tokens.
C27_SoftRemove ==
    /\ [](\A c \in Chan : channel_rows[c] <= 1)
    /\ [][\A c \in Chan :
            /\ channel_rows[c] = 1 => channel_rows'[c] = 1
            /\ (ChannelCallReturned("add", c) /\ channel_call'.result)
                  => channel_rows'[c] = 1
            /\ (ChannelCallReturned("remove", c) /\ channel_call'.result)
                  => /\ active' = active \ {c}
                     /\ UNCHANGED <<channel_rows, settings_rows, tokens>>
                     /\ ActiveListed(c)' = 0
                     /\ TokenListed(c)' = 0]_vars

\* a channel that holds a token has been removed, another one stays active
C27_Witness ==
    /\ channel_call.op = "remove" /\ channel_call.result
    /\ channel_call.channel_id \in tokens \ active
    /\ channel_rows[channel_call.channel_id] = 1
    /\ \E c \in active : c # channel_call.channel_id

\* the position of a kind in the advanced sequence
KindIndex(kind) == CHOOSE k \in 1 .. Len(AdvKinds) : AdvKinds[k] = kind

\* the advanced request that follows request n when nothing halts the pass:
\* the next kind of the channel, or follow for the next channel
NextAdvanced(P, n) ==
    LET r == P.advLog[n]
        k == KindIndex(r[2])
        j == CHOOSE m \in 1 .. Len(P.channels_with_tokens) :
                 P.channels_with_tokens[m] = r[1]
    IN IF k < Len(AdvKinds) THEN <<r[1], AdvKinds[k + 1]>>
       ELSE IF j < Len(P.channels_with_tokens)
            THEN <<P.channels_with_tokens[j + 1], AdvKinds[1]>>
       ELSE <<None, "none">>

\* C28: in the advanced sequence of a channel the kinds are requested in the
\* order follow, subscribe, gift, redemption, and a request that failed
\* without a quota signal (missing scope, session invalid, already exists,
\* any other error) is followed by the request of the next kind for the same
\* channel: it is the last request so far only while the pass is about to
\* issue the next one.
C28_NextKindStillAttempted ==
    \A p \in Passes :
        LET P == pass[p]
        IN \A n \in 1 .. Len(P.advLog) :
             LET r == P.advLog[n]
                 k == KindIndex(r[2])
             IN /\ k = ((n - 1) % Len(AdvKinds)) + 1
                /\ (r[3] # Ok /\ ~QuotaSignal(r[3]) /\ k < Len(AdvKinds)) =>
                      IF n < Len(P.advLog)
                      THEN /\ P.advLog[n + 1][1] = r[1]
                           /\ P.advLog[n + 1][2] = AdvKinds[k + 1]
                      ELSE P.pc = "adv" /\ P.k = k + 1
                                       /\ P.channels_with_tokens[P.j] = r[1]

\* C28 witness: the follow request of a channel failed with 'already exists'
\* or with a session or unclassified error, and the three other kinds were
\* requested for that channel after it.
C28_Witness ==
    \E p \in Passes :
        LET P == pass[p]
        IN \E n \in 1 .. Len(P.advLog) :
             /\ P.advLog[n][2] = AdvKinds[1]
             /\ P.advLog[n][3] \in TransientTexts \cup {TxtExists}
             /\ n + 3 <= Len(P.advLog)
             /\ P.advLog[n + 3] = <<P.advLog[n][1], AdvKinds[4], Ok>>

\* C29: a 'missing authorization scope' rejection never halts the pass: the
\* request after it is the next one of the sequence (the next kind of the
\* channel, then follow of the next authorized channel), the quota-halt flag
\* is not raised by it, and a pass that met such a rejection and no quota
\* signal ends with every kind of every authorized channel requested.
C29_ScopeRejectionNeverHalts ==
    \A p \in Passes :
        LET P == pass[p]
            scope == {n \in 1 .. Len(P.advLog) : P.advLog[n][3] = TxtScope}
            quota == {n \in 1 .. Len(P.advLog) : QuotaSignal(P.advLog[n][3])}
        IN /\ \A n \in scope :
                IF n < Len(P.advLog)
                THEN <<P.advLog[n + 1][1], P.advLog[n + 1][2]>> = NextAdvanced(P, n)
                ELSE /\ ~P.cost_limit_reached
                     /\ IF NextAdvanced(P, n) = <<None, "none">>
                        THEN P.pc = "done"
                        ELSE /\ P.pc = "adv"
                             /\ <<P.channels_with_tokens[P.j], AdvKinds[P.k]>>
                                   = NextAdvanced(P, n)
           /\ (P.pc = "done" /\ scope # {} /\ quota = {}) =>
                Len(P.advLog) = Len(AdvKinds) * Len(P.channels_with_tokens)

\* C29 witness: every kind of the first authorized channel was rejected for
\* the missing scope, and the pass went on to subscribe the next channel to
\* all four kinds.
C29_Witness ==
    \E p \in Passes :
        LET P == pass[p]
        IN /\ P.pc = "done"
           /\ Len(P.channels_with_tokens) > 1
           /\ Len(P.advLog) = Len(AdvKinds) * Len(P.channels_with_tokens)
           /\ \A n \in 1 .. Len(AdvKinds) :
                /\ P.advLog[n][3] = TxtScope
                /\ P.advLog[Len(AdvKinds) + n][3] = Ok

\* the basic requests a channel's task issues: chat, then stream online if
\* chat succeeded, then raid if stream online succeeded
BasicIssued(P, ch) ==
    /\ \E r \in P.basicLog : r[1] = ch /\ r[2] = BasicKinds[1]
    /\ \A k \in 1 .. Len(BasicKinds) - 1 :
          <<ch, BasicKinds[k], Ok>> \in P.basicLog
             => \E r \in P.basicLog : r[1] = ch /\ r[2] = BasicKinds[k + 1]

\* C30: in the basic tier no authorized channel keeps the requests of
\* another from being issued: while the tier runs, every channel whose
\* sequence has not returned can issue its next request whatever the others
\* did, and when the tier is over the sequence of every authorized channel
\* was started and went as far as its own outcomes allow.
C30_BasicTierIndependent ==
    \A p \in Passes :
        LET P == pass[p]
            cwt == P.channels_with_tokens
        IN /\ P.pc = "basic" =>
                \A n \in 1 .. Len(cwt) :
                    P.basic[n] \in 1 .. Len(BasicKinds) => ENABLED BasicStep(p, n)
           /\ (~P.advanced_only /\ P.pc \in {"chat", "adv", "done"}) =>
                \A n \in 1 .. Len(cwt) : BasicIssued(P, cwt[n])

\* C30 witness: the chat request of one authorized channel failed, and the
\* three basic requests of another one succeeded in the same pass.
C30_Witness ==
    \E p \in Passes :
        LET P == pass[p]
        IN /\ P.pc \in {"chat", "adv", "done"}
           /\ \E r \in P.basicLog :
                /\ r[2] = BasicKinds[1] /\ r[3] # Ok
                /\ \E c \in SeqSet(P.channels_with_tokens) \ {r[1]} :
                      \A k \in 1 .. Len(BasicKinds) :
                          <<c, BasicKinds[k], Ok>> \in P.basicLog

\* C37: event_message swaps the bot-wide prefix for the channel's and
\* restores it on exit: under any interleaving of event_message tasks every
\* message is parsed with the prefix of its own channel, and when no task is
\* in progress the bot-wide prefix is the one it was before the tasks
\* started.
C37_PrefixSwapRestored ==
    /\ \A t \in MsgTasks :
          msg[t].pc = "processing" => msg[t].parsed = msg[t].channel_prefix
    /\ (\A t \in MsgTasks : msg[t].pc # "processing") => _prefix = DefaultPrefix

\* what is_command_enabled answers for command x in channel c when nothing
\* fails: from the cached entry, or from the row of the store
Observed(cache, rows, c, x) ==
    IF CacheHit(cache, c) THEN is_command_enabled(cache[c], x)
    ELSE is_command_enabled(rows[c], x)

\* C36: when the store write of a disable or enable request fails, the
\* command is enabled or disabled, as is_command_enabled observes it, as it
\* was before the request (enabled before a disable, disabled before an
\* enable): the cached entry is not changed by a request that did not
\* persist.
C36_FailedWriteChangesNothing ==
    [][\A t \in SetTasks :
          (/\ op[t].kind \in Editors /\ op[t].pc = "write"
           /\ op'[t].pc = "done" /\ op'[t].res = "error")
             => Observed(channel_settings_cache', channel_settings', op[t].ch, op[t].x)
                  = (op[t].kind = "disable")]_vars

\* C38: after a set-prefix of channel c has replied success, the components
\* that match commands for c use the new prefix from the next message on:
\* the prefix the custom-command listener holds for c is the new one, and a
\* message the listener matches in c is matched with it.
C38_ListenerUsesNewPrefix ==
    /\ [](\A c \in SetChan :
            (loaded /\ last_change[c].kind = "setprefix")
               => ListenerPrefix(channel_prefixes, c) = last_change[c].pfx)
    /\ [][\A c \in SetChan :
            (/\ listened' # listened /\ listened'.ch = c
             /\ last_change[c].kind = "setprefix")
               => listened'.prefix = last_change[c].pfx]_vars

\* C40: in the be-first game, per channel and between two resets, one
\* chatter is recorded as winner: first_found goes from false to true once,
\* for the chatter whose message is being handled; the winner is never
\* overwritten; a step that changes the state of a channel leaves the other
\* channels as they were; reset_game(c) returns channel c, and only c, to
\* the state without winner.
C40_OneWinner ==
    /\ [](\A c \in SetChan :
            channel_states[c].first_found <=> channel_states[c].winner # None)
    /\ [][\A c \in SetChan :
            LET a == channel_states[c]
                b == channel_states'[c]
            IN /\ (a.first_found /\ b.first_found) => b.winner = a.winner
               /\ (~a.first_found /\ b.first_found) =>
                     /\ b.winner \in Chatters
                     /\ processing_lock' = b.winner
                     /\ chat'[b.winner] = [pc |-> "announcing", ch |-> c]
               /\ (a.first_found /\ ~b.first_found) => b = NewGame
               /\ a # b => \A d \in SetChan \ {c} :
                               channel_states'[d] = channel_states[d]]_vars

\* C40 witness: a channel has its winner and a later chatter is being told
\* so, while the game of the other channel has been reset and waits for a
\* new winner.
C40_Witness ==
    \E c \in SetChan, d \in SetChan, u \in Chatters :
        /\ c # d
        /\ channel_states[c].first_found /\ channel_states[c].winner # u
        /\ chat[u] = [pc |-> "replying", ch |-> c]
        /\ channel_states[d] = NewGame

\* C31: every pass terminates, given that each store query and each
\* subscription request returns or raises: a pass that is running is
\* eventually over. A quota halt of the chat-only loop does not end the
\* pass: it goes on to the advanced tier when there are authorized channels,
\* and to its end otherwise.
C31_PassTerminates ==
    /\ \A p \in Passes : Running(p) ~> ~Running(p)
    /\ [][\A p \in Passes :
            LET P == pass[p]
                Q == pass'[p]
            IN (/\ P.pc = "chat" /\ Q.pc # "chat"
                /\ QuotaSignal(Q.chatLog[Len(Q.chatLog)][2]))
                  => /\ Q.pc = IF P.channels_with_tokens # <<>> THEN "adv" ELSE "done"
                     /\ ~Q.cost_limit_reached]_vars

\* C31 witness: the chat-only loop was halted by a quota signal before its
\* last channel, and the pass has since issued an advanced request and come
\* to its end.
C31_Witness ==
    \E p \in Passes :
        LET P == pass[p]
        IN /\ P.pc = "done"
           /\ P.chatLog # <<>>
           /\ QuotaSignal(P.chatLog[Len(P.chatLog)][2])
           /\ P.advLog # <<>>

\* C32: after any sequence of welcome signals a full pass with is_reconnect
\* set is started at or after the last signal: the last signal starts one.
C32_LastSignalStartsPass ==
    welcomes # <<>> => Handled(Len(welcomes))

\* C32, amended: a full pass with is_reconnect set was started at the last
\* welcome signal or less than 10 seconds before it; a signal that comes
\* within 10 seconds of the last one that started a pass starts none.
C32_PassWithinWindowOfLastSignal ==
    welcomes # <<>> =>
        LET last == welcomes[Len(welcomes)]
        IN \E m \in 1 .. Len(welcomes) :
             /\ Handled(m)
             /\ last.at - welcomes[m].at < DebounceWindow
             /\ \A n \in m + 1 .. Len(welcomes) : ~Handled(n)
             /\ LET P == pass[welcomes[m].pass]
                IN P.is_reconnect /\ P.channel_id = None /\ ~P.advanced_only

\* C32 witness: two signals ten seconds apart or more have each started a
\* pass, and a third one, shortly after the second, has started none.
C32_Witness ==
    /\ Len(welcomes) = 3
    /\ Handled(1) /\ Handled(2) /\ ~Handled(3)
    /\ welcomes[3].at > welcomes[2].at

\* C33: for an authorized channel whose chat-message subscription already
\* exists, a full pass still requests the stream-online and the raid
\* subscription of the channel in its basic tier.
C33_ExistingChatStillOnlineAndRaid ==
    \A p \in Passes :
        LET P == pass[p]
        IN (FullPass(P) /\ P.pc \in {"chat", "adv", "done"}) =>
             \A c \in SeqSet(P.channels_with_tokens) :
                <<c, "chat", TxtExists>> \in P.basicLog =>
                   {<<c, "online">>, <<c, "raid">>} \subseteq Targets(P.basicLog)

\* the position of the first quota signal of the chat-only loop, or the
\* number of unauthorized channels when there is none
ChatLimit(P) ==
    LET quota == {n \in 1 .. Len(P.chatLog) : QuotaSignal(P.chatLog[n][2])}
    IN IF quota = {} THEN Len(P.channels_without_tokens)
       ELSE CHOOSE n \in quota : \A m \in quota : n <= m

\* C34: in the chat-only loop a failure that is neither a quota signal nor
\* 'already exists' does not end the loop: once the loop is over, every
\* unauthorized channel up to the first quota signal (every unauthorized
\* channel when there is none) has got exactly one chat request.
C34_ChatFailureNotFatal ==
    \A p \in Passes :
        LET P == pass[p]
            cwot == P.channels_without_tokens
        IN (FullPass(P) /\ P.pc \in {"adv", "done"}) =>
             \A m \in 1 .. ChatLimit(P) :
                Cardinality({n \in 1 .. Len(P.chatLog) : P.chatLog[n][1] = cwot[m]}) = 1

\* C34 witness: the chat request of the first unauthorized channel failed
\* with a session or unclassified error and the next channel was subscribed.
C34_Witness ==
    \E p \in Passes :
        LET P == pass[p]
        IN /\ FullPass(P) /\ P.pc \in {"adv", "done"}
           /\ Len(P.chatLog) > 1
           /\ P.chatLog[1][2] \in TransientTexts
           /\ P.chatLog[2][2] = Ok

\* the chat-message requests a pass has issued for channel c, in both tiers
ChatRequestsOf(P, c) ==
    Cardinality({r \in P.basicLog : r[1] = c /\ r[2] = "chat"})
      + Cardinality({n \in 1 .. Len(P.chatLog) : P.chatLog[n][1] = c})

\* C35: in a full pass each channel gets at most one chat-message request:
\* the credential list and the chat-only list of the pass have no channel in
\* common, whatever happened to the store between the two queries, and a
\* channel is requested by the basic tier only if it is in the credential
\* list and by the chat-only loop only if it is in the chat-only list.
C35_OneChatRequestPerChannel ==
    \A p \in Passes :
        LET P == pass[p]
        IN FullPass(P) =>
             /\ SeqSet(P.channels_with_tokens) \cap SeqSet(P.channels_without_tokens) = {}
             /\ \A c \in Chan :
                  /\ ChatRequestsOf(P, c) <= 1
                  /\ (\E r \in P.basicLog : r[1] = c) => c \in SeqSet(P.channels_with_tokens)
                  /\ (\E n \in 1 .. Len(P.chatLog) : P.chatLog[n][1] = c)
                        => c \in SeqSet(P.channels_without_tokens)

\* C35 witness: a channel that was in the active list of the pass was not
\* active any more when the credential list was fetched; the pass is over and
\* has requested chat once for it, and once for a channel with a credential.
C35_Witness ==
    \E p \in Passes :
        LET P == pass[p]
        IN /\ FullPass(P) /\ P.pc = "done" /\ P.summary = "ready"
           /\ \E c \in SeqSet(P.channels) \ active :
                 /\ c \in tokens
                 /\ ChatRequestsOf(P, c) = 1
           /\ \E d \in SeqSet(P.channels_with_tokens) : ChatRequestsOf(P, d) = 1

\* C39: once the latest full pass has come to its end without a failed
\* request, with the channel list the store holds now, the channels with a
\* live chat-message subscription are the active channels: a channel removed
\* before the pass has no live subscription left.
C39_LiveChatIsActive ==
    \A p \in Passes :
        LET P == pass[p]
        IN (/\ p = started /\ FullPass(P) /\ P.pc = "done" /\ P.summary # "failed"
            /\ \A r \in Requests(P) : r[3] \in {Ok, TxtExists}
            /\ SeqSet(P.channels) = active)
              => /\ {c \in Chan : <<c, "chat">> \in live} = active
                 /\ \A c \in Chan \ active : \A t \in live : t[1] # c

=============================================================================
